---- MODULE Spec2Model ----
(***************************************************************************)
(* ObjectTracker (services/trackingService): the per-frame tracker engine. *)
(*                                                                         *)
(* Specification Spec models the identity life cycle of update() and       *)
(* reset(): ageing, greedy association, the re-anchoring of a matched      *)
(* track on its detection, track creation, the violation pass' visit of    *)
(* the annotated detections, and eviction.  A track carries the fields     *)
(* that association, creation and cleanup read or write: id, class, box,   *)
(* centroid, missingFrames.  The fields that only the speed, lane and      *)
(* violation arithmetic reads (kalman, avgHeight, speedHistory,            *)
(* laneHistory, speed, velocity, the two counters, the timestamps) never   *)
(* flow into those five, so the slice is exact for them.                   *)
(*                                                                         *)
(* Geometry is exact rational arithmetic.  Box coordinates are the         *)
(* source's, integers of the 0..1000 range (Span).  A centroid (x, y) of   *)
(* the source is kept as the pair of coordinate sums                       *)
(* <<xmin+xmax, ymin+ymax>>, i.e. in units of 1/(2*Span).  An IoU is kept  *)
(* as the fraction <<intersection, union>> in lowest terms, a squared      *)
(* centroid distance as the integer d2 with dist = sqrt(d2) / (2*Span).    *)
(***************************************************************************)
EXTENDS Integers, Sequences, FiniteSets, TLC

VARIABLES
    tracks,      \* this.tracks: the live tracks, in array order
    nextId,      \* this.nextId
    pc,          \* "idle" between calls; "update" / "reset": that call is at its end
    detections,  \* update()'s argument, annotated in place, which it returns
    given,       \* update()'s argument as it was when the call started
    before,      \* this.tracks as it was when the call started
    claimed,     \* the claims of the call: <<track id, index in detections>>
    created,     \* the tracks the call created: <<track id, index in detections>>
    issued,      \* the ids handed out since construction or the last reset()
    flowDir,     \* checkViolations' flowDir of the call, a fraction
    calls,       \* the update() calls made so far (specifications that bound them)
    runs,        \* per live track, in array order: how long its detections
                 \* have met a condition without a break (see Runs)
    kept,        \* what the caller keeps: the detections an earlier update()
                 \* returned, or the arguments and the result of a helper
                 \* that is called on its own
    fresh,       \* a second tracker, constructed when the first was reset and
                 \* fed the same frames since; <<>> while there is none
    app          \* the component that owns the tracker (App.tsx): its refs and
                 \* state, the asynchronous work it has pending

vars == <<tracks, nextId, pc, detections, given, before, claimed, created, issued,
          flowDir, calls, runs, kept, fresh, app>>

\* What the owner of the tracker holds beside it.
owner == <<fresh, app>>

----------------------------------------------------------------------------
\* Bounds of the model.

\* Detections per frame.
MaxDets == 2

\* update() is not taken once it could hand out an id above MaxId.
MaxId == 2

----------------------------------------------------------------------------
\* Tracking parameters of the class.

maxMissingFrames == 5

\* The extent of the coordinate range: getCentroid divides by 1000.
Span == 1000

\* 0.25 as <<numerator, denominator>>
iouThreshold == <<1, 4>>

\* 0.15 as <<numerator, denominator>>
centroidDistanceThreshold == <<3, 20>>

----------------------------------------------------------------------------
\* Per-frame inputs.

\* d.box_2d of a detection that has no box
NoBox == <<>>

\* [ymin, xmin, ymax, xmax].  Seen from BoxA: BoxC overlaps it with IoU 8/25
\* (above the threshold); BoxB overlaps it with IoU 3/13 (not above) at
\* centroid distance sqrt(0.0125) (below the threshold), so its distance
\* score is about 0.444; BoxZ has zero area and sits on BoxA's centroid.
\* BoxB and BoxC are out of each other's reach, and so are BoxZ and BoxC.
BoxA == <<200, 200, 400, 400>>
BoxB == <<250, 100, 450, 300>>
BoxC == <<150, 200, 400, 700>>
BoxZ == <<300, 300, 300, 300>>

Boxes == {BoxA, BoxB, BoxC, BoxZ}

Labels == {"car"}

\* A detection as the vision stage hands it over: no tracking field set.
Detection(type, object, box) ==
    [type |-> type, object |-> object, box_2d |-> box,
     trackId |-> 0, synced |-> FALSE, analysed |-> FALSE]

DetectionInputs ==
    {Detection("vehicle", l, b) : l \in Labels, b \in Boxes}
        \cup {Detection("vehicle", "car", NoBox),
              Detection("person", "person", BoxA)}

RECURSIVE SeqsUpTo(_, _)
SeqsUpTo(S, n) ==
    IF n = 0 THEN {<<>>}
    ELSE LET shorter == SeqsUpTo(S, n - 1)
         IN shorter \cup {Append(s, x) : s \in {q \in shorter : Len(q) = n - 1}, x \in S}

Frames == SeqsUpTo(DetectionInputs, MaxDets)

----------------------------------------------------------------------------
\* Helpers of the class.

Max(a, b) == IF a > b THEN a ELSE b

Min(a, b) == IF a < b THEN a ELSE b

\* getCentroid: [x, y] = [(xmin+xmax)/2/1000, (ymin+ymax)/2/1000], kept as the
\* two coordinate sums (units of 1/(2*Span)).
getCentroid(box) == <<box[2] + box[4], box[1] + box[3]>>

\* Greatest common divisor of two naturals, not both 0.
RECURSIVE GCD(_, _)
GCD(a, b) == IF b = 0 THEN a ELSE GCD(b, a % b)

\* The fraction n/d (d > 0) in lowest terms.
Fraction(n, d) ==
    LET g == GCD(IF n < 0 THEN -n ELSE n, d)
    IN <<n \div g, d \div g>>

\* Mutant of calculateIoU: the intersection is not taken off the two areas.
IoUOverSum(boxA, boxB) ==
    LET yA == Max(boxA[1], boxB[1])
        xA == Max(boxA[2], boxB[2])
        yB == Min(boxA[3], boxB[3])
        xB == Min(boxA[4], boxB[4])
        interArea == Max(0, xB - xA) * Max(0, yB - yA)
        boxAArea == (boxA[3] - boxA[1]) * (boxA[4] - boxA[2])
        boxBArea == (boxB[3] - boxB[1]) * (boxB[4] - boxB[2])
    IN IF boxAArea + boxBArea = 0 THEN <<0, 1>>
       ELSE Fraction(interArea, boxAArea + boxBArea)

\* calculateIoU: interArea / unionArea; the source returns 0 when the union
\* is 0.
calculateIoU(boxA, boxB) ==
    LET yA == Max(boxA[1], boxB[1])
        xA == Max(boxA[2], boxB[2])
        yB == Min(boxA[3], boxB[3])
        xB == Min(boxA[4], boxB[4])
        interArea == Max(0, xB - xA) * Max(0, yB - yA)
        boxAArea == (boxA[3] - boxA[1]) * (boxA[4] - boxA[2])
        boxBArea == (boxB[3] - boxB[1]) * (boxB[4] - boxB[2])
    IN IF boxAArea + boxBArea - interArea = 0 THEN <<0, 1>>
       ELSE Fraction(interArea, boxAArea + boxBArea - interArea)

\* Math.pow(dx, 2) + Math.pow(dy, 2) of two centroids, in units of 1/(2*Span)^2
SquaredDistance(c1, c2) ==
    (c1[1] - c2[1]) * (c1[1] - c2[1]) + (c1[2] - c2[2]) * (c1[2] - c2[2])

\* iou > this.iouThreshold
AboveIouThreshold(iou) == iou[1] * iouThreshold[2] > iouThreshold[1] * iou[2]

\* dist < this.centroidDistanceThreshold, with dist = sqrt(d2) / (2*Span);
\* a dist of 1 or more is not below it.
BelowDistanceThreshold(d2) ==
    /\ d2 < (2 * Span) * (2 * Span)
    /\ d2 * centroidDistanceThreshold[2] * centroidDistanceThreshold[2]
           < centroidDistanceThreshold[1] * centroidDistanceThreshold[1]
                 * (2 * Span) * (2 * Span)

\* bestScore is -1 (kind "none"), an IoU a/b (kind "iou"), or the distance
\* score (1 - sqrt(a)/(2*Span)) * 0.5 (kind "dist").
NoScore == [kind |-> "none", a |-> 0, b |-> 1]

IouScore(iou) == [kind |-> "iou", a |-> iou[1], b |-> iou[2]]

DistanceScore(d2) == [kind |-> "dist", a |-> d2, b |-> 1]

\* i/u > (1 - sqrt(d2)/(2*Span)) * 0.5, i.e. sqrt(d2) * u > 2*Span * (u - 2i)
IouAboveDistanceScore(i, u, d2) ==
    LET r == u - 2 * i
    IN IF r < 0 THEN TRUE
       ELSE d2 * u * u > (2 * Span) * (2 * Span) * r * r

\* (1 - sqrt(d2)/(2*Span)) * 0.5 > i/u, i.e. sqrt(d2) * u < 2*Span * (u - 2i)
DistanceScoreAboveIou(d2, i, u) ==
    LET r == u - 2 * i
    IN IF r <= 0 THEN FALSE
       ELSE d2 * u * u < (2 * Span) * (2 * Span) * r * r

\* iou > bestScore
IouBeats(iou, bestScore) ==
    CASE bestScore.kind = "none" -> TRUE
      [] bestScore.kind = "iou"  -> iou[1] * bestScore.b > bestScore.a * iou[2]
      [] bestScore.kind = "dist" -> IouAboveDistanceScore(iou[1], iou[2], bestScore.a)

\* Mutant of DistanceBeats: score < bestScore.
DistanceBeatsReversed(d2, bestScore) ==
    CASE bestScore.kind = "none" -> FALSE
      [] bestScore.kind = "iou"  -> IouAboveDistanceScore(bestScore.a, bestScore.b, d2)
      [] bestScore.kind = "dist" -> d2 > bestScore.a

\* score > bestScore, for score = (1 - dist) * 0.5
DistanceBeats(d2, bestScore) ==
    CASE bestScore.kind = "none" -> TRUE
      [] bestScore.kind = "iou"  -> DistanceScoreAboveIou(d2, bestScore.a, bestScore.b)
      [] bestScore.kind = "dist" -> d2 < bestScore.a

----------------------------------------------------------------------------
\* update(detections, timestamp)

\* Mutant of IsValid: the filter forgets the type.
IsValidAnyType(d) == d.box_2d # NoBox

\* validDetections = detections.filter(d => d.box_2d && d.type === 'vehicle')
IsValid(d) == d.box_2d # NoBox /\ d.type = "vehicle"

\* The positions in detections of the elements of validDetections, in order.
RECURSIVE ValidIndices(_, _)
ValidIndices(dets, i) ==
    IF i > Len(dets) THEN <<>>
    ELSE (IF IsValid(dets[i]) THEN <<i>> ELSE <<>>) \o ValidIndices(dets, i + 1)

\* validDetections, whose elements are the objects of detections themselves
validDetections(dets, vi) == [k \in 1..Len(vi) |-> dets[vi[k]]]

\* Mutant of Age: the track that is aged loses its displayed speed.
AgeForgetsSpeed(t) == [t EXCEPT !.missingFrames = @ + 1, !.speed = 0]

\* this.tracks.forEach(t => t.missingFrames++)
Age(t) == [t EXCEPT !.missingFrames = @ + 1]

\* The body of the inner forEach for the detection at `index`:
\* best = [bestMatchIndex, bestScore], bestMatchIndex 0 for the source's -1.
ConsiderDetection(track, valid, unmatched, index, best) ==
    LET det == valid[index]
    IN IF index \notin unmatched \/ det.box_2d = NoBox THEN best
       ELSE LET iou == calculateIoU(track.box, det.box_2d)
                afterIou ==
                    IF AboveIouThreshold(iou) /\ IouBeats(iou, best.bestScore)
                    THEN [bestMatchIndex |-> index, bestScore |-> IouScore(iou)]
                    ELSE best
                d2 == SquaredDistance(getCentroid(det.box_2d), track.centroid)
            IN IF /\ afterIou.bestMatchIndex = 0
                  /\ BelowDistanceThreshold(d2)
                  /\ DistanceBeats(d2, afterIou.bestScore)
               THEN [bestMatchIndex |-> index, bestScore |-> DistanceScore(d2)]
               ELSE afterIou

RECURSIVE ScanDetections(_, _, _, _, _)
ScanDetections(track, valid, unmatched, index, best) ==
    IF index > Len(valid) THEN best
    ELSE ScanDetections(track, valid, unmatched, index + 1,
                        ConsiderDetection(track, valid, unmatched, index, best))

\* bestMatchIndex after the inner forEach (0: no match)
BestMatch(track, valid, unmatched) ==
    ScanDetections(track, valid, unmatched, 1,
                   [bestMatchIndex |-> 0, bestScore |-> NoScore]).bestMatchIndex

\* Mutant of Claim: the claimed detection stays in unmatchedDetections.
ClaimWithoutDelete(unmatched, index) == unmatched

\* unmatchedDetections.delete(bestMatchIndex)
Claim(unmatched, index) == unmatched \ {index}

\* Mutant of Anchor: missingFrames is not set back to 0 on a match.
AnchorKeepsMissing(track, match) ==
    [track EXCEPT !.box = match.box_2d,
                  !.centroid = getCentroid(match.box_2d)]

\* Mutant of Anchor: the matched track takes the label of its match.
AnchorTakesClass(track, match) ==
    [track EXCEPT !.missingFrames = 0,
                  !.box = match.box_2d,
                  !.centroid = getCentroid(match.box_2d),
                  !.class = match.object]

\* The matched track: missingFrames = 0, box and centroid taken from the match.
Anchor(track, match) ==
    [track EXCEPT !.missingFrames = 0,
                  !.box = match.box_2d,
                  !.centroid = getCentroid(match.box_2d)]

\* Mutant of SyncToDetection: the track id is not copied to the detection.
SyncWithoutTrackId(det, track) == [det EXCEPT !.synced = TRUE]

\* Sync to Detection: trackId; synced stands for the fields written with it
\* (estimatedSpeed, laneEvent, speedHistory).
SyncToDetection(det, track) == [det EXCEPT !.trackId = track.id, !.synced = TRUE]

\* The body of the outer forEach for the track at position k.
\* st = [tracks, dets, unmatched, nextId, claimed, created]
MatchTrack(st, vi, k) ==
    LET track == st.tracks[k]
        valid == validDetections(st.dets, vi)
        bestMatchIndex == BestMatch(track, valid, st.unmatched)
    IN IF bestMatchIndex = 0 THEN st
       ELSE [st EXCEPT !.unmatched = Claim(@, bestMatchIndex),
                       !.tracks[k] = Anchor(track, valid[bestMatchIndex]),
                       !.dets[vi[bestMatchIndex]] = SyncToDetection(@, track),
                       !.claimed = Append(@, <<track.id, vi[bestMatchIndex]>>)]

\* Mutant of MatchTracks: the tracks search last to first.
RECURSIVE MatchTracksReversed(_, _, _)
MatchTracksReversed(st, vi, k) ==
    IF k > Len(st.tracks) THEN st
    ELSE MatchTrack(MatchTracksReversed(st, vi, k + 1), vi, k)

\* this.tracks.forEach(track => ...): first to last
RECURSIVE MatchTracks(_, _, _)
MatchTracks(st, vi, k) ==
    IF k > Len(st.tracks) THEN st
    ELSE MatchTracks(MatchTrack(st, vi, k), vi, k + 1)

\* Mutant of NextIdAfter: the counter is read but not advanced.
NextIdNotAdvanced(n) == n

\* id: this.nextId++
NextIdAfter(n) == n + 1

\* The track created from an unclaimed detection.
NewTrack(id, det) ==
    [id |-> id, class |-> det.object, box |-> det.box_2d,
     centroid |-> getCentroid(det.box_2d), missingFrames |-> 0]

\* The body of unmatchedDetections.forEach for the valid detection k.
CreateTrack(st, vi, k) ==
    LET det == st.dets[vi[k]]
        newTrack == NewTrack(st.nextId, det)
    IN IF det.box_2d = NoBox THEN st
       ELSE [st EXCEPT !.nextId = NextIdAfter(@),
                       !.tracks = Append(@, newTrack),
                       !.dets[vi[k]] = SyncToDetection(@, newTrack),
                       !.created = Append(@, <<newTrack.id, vi[k]>>)]

\* unmatchedDetections.forEach: a Set iterates in insertion order, here the
\* ascending order of the indices that were not deleted.
RECURSIVE CreateTracks(_, _, _)
CreateTracks(st, vi, k) ==
    IF k > Len(vi) THEN st
    ELSE CreateTracks(IF k \in st.unmatched THEN CreateTrack(st, vi, k) ELSE st,
                      vi, k + 1)

\* checkViolations reaches its counters and flags for a detection only past
\* "if (!d.trackId) return" and "if (!track) return".
Analysed(d, ts) == d.trackId # 0 /\ \E k \in 1..Len(ts) : ts[k].id = d.trackId

\* this.checkViolations(validDetections): the detections it visits.
checkViolations(st, vi) ==
    [st EXCEPT !.dets = [i \in 1..Len(st.dets) |->
        IF (\E k \in 1..Len(vi) : vi[k] = i) /\ Analysed(st.dets[i], st.tracks)
        THEN [st.dets[i] EXCEPT !.analysed = TRUE]
        ELSE st.dets[i]]]

\* Mutant of Survives: < for <=.
SurvivesStrict(t) == t.missingFrames < maxMissingFrames

\* t.missingFrames <= this.maxMissingFrames
Survives(t) == t.missingFrames <= maxMissingFrames

\* The whole call, from the tracker state (ts, id) and the array dets.
UpdateResult(ts, id, dets) ==
    LET vi == ValidIndices(dets, 1)
        aged == [tracks |-> [k \in 1..Len(ts) |-> Age(ts[k])],
                 dets |-> dets,
                 unmatched |-> 1..Len(vi),
                 nextId |-> id,
                 claimed |-> <<>>,
                 created |-> <<>>]
        matched == MatchTracks(aged, vi, 1)
        grown == CreateTracks(matched, vi, 1)
        checked == checkViolations(grown, vi)
    IN [checked EXCEPT !.tracks = SelectSeq(@, Survives)]

----------------------------------------------------------------------------
\* The tracker as a state machine.

\* App as it is mounted (App.tsx:35-63): useState('home'), useRef(false)
\* twice, useState(false) twice, useState(AgentStatus.IDLE), useState(null),
\* no source on a video element, the camera effect run once with the camera
\* off, no asynchronous work pending.  Of the component's bookkeeping, loops
\* counts the loops started, session the calls of stopAllModes(), and
\* processed tells whether an analysis that was sent since the last of them
\* has completed.
Mounted ==
    [activeView |-> "home", simulationRef |-> FALSE, videoProcessingRef |-> FALSE,
     isCameraActive |-> FALSE, processingVideo |-> FALSE, status |-> "IDLE",
     result |-> <<>>, videoSrc |-> "",
     effect |-> [isCameraActive |-> FALSE, status |-> "IDLE", loop |-> 0],
     pending |-> {}, loops |-> 0, session |-> 0, processed |-> FALSE]

\* private tracks: TrackedObject[] = []; private nextId = 1
Init ==
    /\ tracks = <<>>
    /\ nextId = 1
    /\ pc = "idle"
    /\ detections = <<>>
    /\ given = <<>>
    /\ before = <<>>
    /\ claimed = <<>>
    /\ created = <<>>
    /\ issued = <<>>
    /\ flowDir = <<0, 1>>
    /\ calls = 0
    /\ runs = <<>>
    /\ kept = <<>>
    /\ fresh = <<>>
    /\ app = Mounted

\* The ids of the created tracks, in creation order.
CreatedIds(cr) == [k \in 1..Len(cr) |-> cr[k][1]]

\* public update(detections, timestamp), up to its return statement.  Calls
\* do not interleave: the method is synchronous.
Update ==
    /\ pc = "idle"
    /\ \E frame \in Frames :
        \E r \in {UpdateResult(tracks, nextId, frame)} :
           /\ r.nextId <= MaxId + 1
           /\ tracks' = r.tracks
           /\ nextId' = r.nextId
           /\ detections' = r.dets
           /\ given' = frame
           /\ before' = tracks
           /\ claimed' = r.claimed
           /\ created' = r.created
           /\ issued' = issued \o CreatedIds(r.created)
           /\ pc' = "update"
           /\ UNCHANGED <<flowDir, calls, runs, kept>>
           /\ UNCHANGED owner

\* this.tracks = [] in reset()
ResetTracks == <<>>

\* Mutant of ResetNextId: reset() leaves the counter alone.
ResetKeepsNextId == nextId

\* this.nextId = 1 in reset()
ResetNextId == 1

\* public reset(), up to its end
Reset ==
    /\ pc = "idle"
    /\ tracks' = ResetTracks
    /\ nextId' = ResetNextId
    /\ before' = tracks
    /\ issued' = <<>>
    /\ runs' = <<>>
    /\ pc' = "reset"
    /\ UNCHANGED <<detections, given, claimed, created, flowDir, calls, kept>>
    /\ UNCHANGED owner

\* The call returns: its argument and locals are the caller's from here on.
Return ==
    /\ pc # "idle"
    /\ pc' = "idle"
    /\ detections' = <<>>
    /\ given' = <<>>
    /\ before' = <<>>
    /\ claimed' = <<>>
    /\ created' = <<>>
    /\ flowDir' = <<0, 1>>
    /\ UNCHANGED <<tracks, nextId, issued, calls, runs, kept>>
    /\ UNCHANGED owner

Next == Update \/ Reset \/ Return

Spec == Init /\ [][Next]_vars

----------------------------------------------------------------------------
\* Speed, velocity and the violation pass.
\*
\* A speed in km/h that is not an integer (avgSpeed, track.velocity, flowDir)
\* is kept as a fraction <<n, d>>, d > 0, in lowest terms.
\*
\* The source computes in double precision, exact where the result has a
\* double and rounded otherwise.  The operators below are exact where the
\* products of the operation fit the integers of the model (and the
\* denominator stays below 10^8), and round the result to the nearest
\* millionth otherwise.  Comparisons are always exact.

\* |x * y| <= limit, decided without the product
MulFits(x, y, limit) ==
    y = 0 \/ (IF x < 0 THEN -x ELSE x) <= limit \div (IF y < 0 THEN -y ELSE y)

\* <<floor((q + r/d) * 10^k), the remainder>>, for 0 <= r < d
RECURSIVE Decimals(_, _, _, _)
Decimals(q, r, d, k) ==
    IF k = 0 THEN <<q, r>>
    ELSE Decimals(q * 10 + (r * 10) \div d, (r * 10) % d, d, k - 1)

\* The millionths in q + r/d, to the nearest, from qr = Decimals(q, r, d, 6)
Nearest(qr, d) == qr[1] + (IF 2 * qr[2] >= d THEN 1 ELSE 0)

\* The number a in millionths, to the nearest
Millionths(a) == Nearest(Decimals(a[1] \div a[2], a[1] % a[2], a[2], 6), a[2])

\* The product of hi * 1000 + lo and another such pair, both in millionths,
\* in millionths to the nearest, from the partial products
Carry(hh, m, ll) ==
    hh + m \div 1000 + ((m % 1000) * 1000 + ll + 500000) \div 1000000

\* x * y for x, y >= 0 in millionths, in millionths to the nearest
MillionthsProduct(x, y) ==
    Carry((x \div 1000) * (y \div 1000),
          (x \div 1000) * (y % 1000) + (x % 1000) * (y \div 1000),
          (x % 1000) * (y % 1000))

\* x / y for x >= 0, y > 0 in millionths, in millionths to the nearest
MillionthsQuotient(x, y) == Nearest(Decimals(x \div y, x % y, y, 6), y)

\* |n|, and the sign of a product or quotient of x and y that is not 0
Magnitude(n) == IF n < 0 THEN -n ELSE n

SignOf(x, y) == IF (x < 0) = (y < 0) THEN 1 ELSE -1

\* a < b
RECURSIVE FracLess(_, _)
FracLess(a, b) ==
    IF MulFits(a[1], b[2], 2000000000) /\ MulFits(b[1], a[2], 2000000000)
    THEN a[1] * b[2] < b[1] * a[2]
    ELSE IF a[1] \div a[2] # b[1] \div b[2] THEN a[1] \div a[2] < b[1] \div b[2]
         ELSE IF a[1] % a[2] = 0 \/ b[1] % b[2] = 0
              THEN a[1] % a[2] = 0 /\ b[1] % b[2] # 0
              ELSE FracLess(<<b[2], b[1] % b[2]>>, <<a[2], a[1] % a[2]>>)

\* a + b
FracAdd(a, b) ==
    IF /\ MulFits(a[1], b[2], 1000000000)
       /\ MulFits(b[1], a[2], 1000000000)
       /\ MulFits(a[2], b[2], 100000000)
    THEN Fraction(a[1] * b[2] + b[1] * a[2], a[2] * b[2])
    ELSE Fraction(Millionths(a) + Millionths(b), 1000000)

FracAbs(a) == <<IF a[1] < 0 THEN -a[1] ELSE a[1], a[2]>>

\* Math.floor
FracFloor(a) == a[1] \div a[2]

\* Math.sign
Sign(n) == IF n > 0 THEN 1 ELSE IF n < 0 THEN -1 ELSE 0

SPEED_LIMIT_DEFAULT == 80

SPEED_LIMIT_HEAVY == 60

SPEED_LIMIT_LIGHT == 50

\* The class labels of the detections whose speed is modelled.
MovingLabels == {"car", "Bus"}

\* A class label is a string of the model; a detection without a label
\* (d.object undefined) carries NoLabel.
NoLabel == "<undefined>"

\* The characters of the labels of the model and of the keys of the source.
Letters(s) ==
    CASE s = "" -> <<>>
      [] s = "car" -> <<"c", "a", "r">>
      [] s = "Bus" -> <<"B", "u", "s">>
      [] s = "taxi" -> <<"t", "a", "x", "i">>
      [] s = "suv" -> <<"s", "u", "v">>
      [] s = "van" -> <<"v", "a", "n">>
      [] s = "truck" -> <<"t", "r", "u", "c", "k">>
      [] s = "lorry" -> <<"l", "o", "r", "r", "y">>
      [] s = "bus" -> <<"b", "u", "s">>
      [] s = "pickup" -> <<"p", "i", "c", "k", "u", "p">>
      [] s = "motorcycle" -> <<"m", "o", "t", "o", "r", "c", "y", "c", "l", "e">>
      [] s = "bike" -> <<"b", "i", "k", "e">>
      [] s = "bicycle" -> <<"b", "i", "c", "y", "c", "l", "e">>
      [] s = "person" -> <<"p", "e", "r", "s", "o", "n">>
      [] s = "pedestrian" -> <<"p", "e", "d", "e", "s", "t", "r", "i", "a", "n">>
      [] s = "human" -> <<"h", "u", "m", "a", "n">>
      [] s = "default" -> <<"d", "e", "f", "a", "u", "l", "t">>
      [] s = "rickshaw" -> <<"r", "i", "c", "k", "s", "h", "a", "w">>
      [] s = "auto" -> <<"a", "u", "t", "o">>
      [] s = "Lorry" -> <<"L", "o", "r", "r", "y">>
      [] s = "Pickup Truck" -> <<"P", "i", "c", "k", "u", "p", " ", "T", "r", "u", "c", "k">>
      [] s = "minibus" -> <<"m", "i", "n", "i", "b", "u", "s">>
      [] s = "autobus" -> <<"a", "u", "t", "o", "b", "u", "s">>
      [] s = "Auto Rickshaw" -> <<"A", "u", "t", "o", " ", "R", "i", "c", "k", "s", "h", "a", "w">>
      [] s = "motorbike" -> <<"m", "o", "t", "o", "r", "b", "i", "k", "e">>
      [] s = "automobile" -> <<"a", "u", "t", "o", "m", "o", "b", "i", "l", "e">>
      [] s = "caravan" -> <<"c", "a", "r", "a", "v", "a", "n">>
      [] s = "tractor" -> <<"t", "r", "a", "c", "t", "o", "r">>
      [] s = "SUV" -> <<"S", "U", "V">>

Capitals ==
    <<"A", "B", "C", "D", "E", "F", "G", "H", "I", "J", "K", "L", "M",
      "N", "O", "P", "Q", "R", "S", "T", "U", "V", "W", "X", "Y", "Z">>

Smalls ==
    <<"a", "b", "c", "d", "e", "f", "g", "h", "i", "j", "k", "l", "m",
      "n", "o", "p", "q", "r", "s", "t", "u", "v", "w", "x", "y", "z">>

\* The lower-case form of one character
Small(c) ==
    IF \E i \in 1..26 : Capitals[i] = c
    THEN Smalls[CHOOSE i \in 1..26 : Capitals[i] = c]
    ELSE c

\* class.toLowerCase(): the characters of the label in lower case
toLowerCase(class) ==
    SubSeq([i \in 1..Len(Letters(class)) |-> Small(Letters(class)[i])],
           1, Len(Letters(class)))

\* type.includes(key): the characters of key occur in a row in type
includes(type, key) ==
    \E i \in 0..(Len(type) - Len(Letters(key))) :
        SubSeq(type, i + 1, i + Len(Letters(key))) = Letters(key)

\* const type = (track.class || '').toLowerCase()
Type(class) == toLowerCase(IF class = NoLabel THEN "" ELSE class)

\* Mutant of SpeedLimit: the light classes are looked for first.
SpeedLimitLightFirst(class) ==
    IF \/ includes(Type(class), "rickshaw")
       \/ includes(Type(class), "auto")
       \/ includes(Type(class), "bike")
    THEN SPEED_LIMIT_LIGHT
    ELSE IF \/ includes(Type(class), "bus")
            \/ includes(Type(class), "truck")
            \/ includes(Type(class), "lorry")
         THEN SPEED_LIMIT_HEAVY
         ELSE SPEED_LIMIT_DEFAULT

\* let limit = ...: the limit that applies to a track of this class
SpeedLimit(class) ==
    IF \/ includes(Type(class), "bus")
       \/ includes(Type(class), "truck")
       \/ includes(Type(class), "lorry")
    THEN SPEED_LIMIT_HEAVY
    ELSE IF \/ includes(Type(class), "rickshaw")
            \/ includes(Type(class), "auto")
            \/ includes(Type(class), "bike")
         THEN SPEED_LIMIT_LIGHT
         ELSE SPEED_LIMIT_DEFAULT

\* t => t.speed > 5
Moving(t) == t.speed > 5

\* movingTracks.reduce((acc, t) => acc + t.velocity, 0)
RECURSIVE SumVelocity(_, _)
SumVelocity(ts, k) ==
    IF k > Len(ts) THEN <<0, 1>>
    ELSE FracAdd(ts[k].velocity, SumVelocity(ts, k + 1))

\* Mutant of FlowDirection: only the tracks matched or created in the call
\* (missingFrames 0) are averaged.
FlowOfSeenTracks(ts) ==
    LET movingTracks == SelectSeq(SelectSeq(ts, Moving), LAMBDA t : t.missingFrames = 0)
    IN IF Len(movingTracks) > 0
       THEN Fraction(SumVelocity(movingTracks, 1)[1],
                     SumVelocity(movingTracks, 1)[2] * Len(movingTracks))
       ELSE <<0, 1>>

\* flowDir: the mean velocity of the tracks faster than 5 km/h, 0 without any
FlowDirection(ts) ==
    LET movingTracks == SelectSeq(ts, Moving)
    IN IF Len(movingTracks) > 0
       THEN Fraction(SumVelocity(movingTracks, 1)[1],
                     SumVelocity(movingTracks, 1)[2] * Len(movingTracks))
       ELSE <<0, 1>>

\* track.speed > limit
OverLimit(track) == track.speed > SpeedLimit(track.class)

\* Mutant of SpeedingFramesAfter: a frame that is not over the limit resets
\* the counter.
SpeedingFramesReset(track) ==
    IF OverLimit(track) THEN track.speedingFrames + 1 ELSE 0

\* track.speedingFrames after the speeding check
SpeedingFramesAfter(track) ==
    IF OverLimit(track) THEN track.speedingFrames + 1
    ELSE Max(0, track.speedingFrames - 1)

\* Mutant of SpeedingFlag: 2 frames are enough.
SpeedingFlagAtTwo(track) == track.speedingFrames >= 2

\* track.speedingFrames >= 3
SpeedingFlag(track) == track.speedingFrames >= 3

\* Math.abs(flowDir) > 10 && track.speed > 10
WrongWayGuard(track, flow) == FracLess(<<10, 1>>, FracAbs(flow)) /\ track.speed > 10

\* Math.sign(track.velocity) !== Math.sign(flowDir)
AgainstFlow(track, flow) == Sign(track.velocity[1]) # Sign(flow[1])

\* Mutant of WrongWayFramesAfter: a frame with the flow does not reset the
\* counter.
WrongWayFramesKept(track, flow) ==
    IF WrongWayGuard(track, flow) /\ AgainstFlow(track, flow)
    THEN track.wrongWayFrames + 1
    ELSE track.wrongWayFrames

\* track.wrongWayFrames after the wrong-way check
WrongWayFramesAfter(track, flow) ==
    IF WrongWayGuard(track, flow)
    THEN IF AgainstFlow(track, flow) THEN track.wrongWayFrames + 1 ELSE 0
    ELSE track.wrongWayFrames

\* Mutant of WrongWayFlag: 3 frames are enough.
WrongWayFlagAtThree(track) == track.wrongWayFrames >= 3

\* track.wrongWayFrames >= 4
WrongWayFlag(track) == track.wrongWayFrames >= 4

\* The track after the two checks of one detection.
Judge(track, flow) ==
    [track EXCEPT !.speedingFrames = SpeedingFramesAfter(track),
                  !.wrongWayFrames = WrongWayFramesAfter(track, flow)]

\* d.isSpeeding = true, d.isWrongWay = true: set, never cleared
Flag(det, track) ==
    [det EXCEPT !.isSpeeding = @ \/ SpeedingFlag(track),
                !.isWrongWay = @ \/ WrongWayFlag(track),
                !.analysed = TRUE]

\* this.tracks.find(t => t.id === id): its position, 0 when there is none
Find(ts, id) ==
    IF \E k \in 1..Len(ts) : ts[k].id = id
    THEN CHOOSE k \in 1..Len(ts) :
             ts[k].id = id /\ \A j \in 1..(k - 1) : ts[j].id # id
    ELSE 0

\* The body of checkViolations' forEach for the detection at index i.
JudgeDetection(st, i, flow) ==
    IF st.dets[i].trackId = 0 \/ Find(st.tracks, st.dets[i].trackId) = 0 THEN st
    ELSE [st EXCEPT
             !.tracks[Find(st.tracks, st.dets[i].trackId)] = Judge(@, flow),
             !.dets[i] = Flag(@, Judge(st.tracks[Find(st.tracks, st.dets[i].trackId)], flow))]

RECURSIVE JudgeDetections(_, _, _, _)
JudgeDetections(st, vi, k, flow) ==
    IF k > Len(vi) THEN st
    ELSE JudgeDetections(JudgeDetection(st, vi[k], flow), vi, k + 1, flow)

\* checkViolations(validDetections) with its counters and flags
CheckViolations(st, vi) ==
    JudgeDetections([st EXCEPT !.flowDir = FlowDirection(st.tracks)], vi, 1,
                    FlowDirection(st.tracks))

----------------------------------------------------------------------------
\* update() with the speed a matched track is given left open.
\*
\* The updateKalman recurrence and the calibration that follows it are not
\* computed here: a motion [avg, dir] stands for what they yield for a
\* matched track, avgSpeed (a fraction, km/h) and Math.sign(v_norm_per_sec).
\* The specifications below draw it from a set, so they cover every course
\* the filter can take through the values of that set.  A track carries the
\* fields of the slice and speed, velocity, speedingFrames, wrongWayFrames.

\* Calls of update() in the specifications that count them.
MaxCalls == 8

\* The array with the elements f[1], ..., f[Len(f)], as a tuple.
Array(f) == SubSeq(f, 1, Len(f))

\* A detection as the vision stage hands it over (estimatedSpeed -1: not set).
MovingDetection(object, box) ==
    [type |-> "vehicle", object |-> object, box_2d |-> box,
     trackId |-> 0, synced |-> FALSE, analysed |-> FALSE,
     estimatedSpeed |-> -1, isSpeeding |-> FALSE, isWrongWay |-> FALSE]

\* track.speed = Math.floor(avgSpeed); track.velocity = avgSpeed * Math.sign(v)
Move(track, m) ==
    [track EXCEPT !.speed = FracFloor(m.avg),
                  !.velocity = Fraction(m.avg[1] * m.dir, m.avg[2])]

\* match.estimatedSpeed = track.speed
SyncSpeed(det, track) == [det EXCEPT !.estimatedSpeed = track.speed]

\* The speed block of the outer forEach for the i-th claim of the call.
MoveTrack(st, i, mo) ==
    [st EXCEPT
        !.tracks[Find(st.tracks, st.claimed[i][1])] = Move(@, mo[st.claimed[i][1]]),
        !.dets[st.claimed[i][2]] =
            SyncSpeed(@, Move(st.tracks[Find(st.tracks, st.claimed[i][1])],
                              mo[st.claimed[i][1]]))]

RECURSIVE MoveTracks(_, _, _)
MoveTracks(st, i, mo) ==
    IF i > Len(st.claimed) THEN st
    ELSE MoveTracks(MoveTrack(st, i, mo), i + 1, mo)

\* newTrack's speed: 0, velocity: 0, wrongWayFrames: 0, speedingFrames: 0
StartTrack(track) ==
    [id |-> track.id, class |-> track.class, box |-> track.box,
     centroid |-> track.centroid, missingFrames |-> track.missingFrames,
     speed |-> 0, velocity |-> <<0, 1>>,
     speedingFrames |-> 0, wrongWayFrames |-> 0]

\* det.estimatedSpeed = 0
StartDetection(det) == [det EXCEPT !.estimatedSpeed = 0]

\* The created tracks and their detections with the fields above.
StartTracks(st) ==
    [st EXCEPT
        !.tracks = Array([k \in 1..Len(st.tracks) |->
                       IF \E j \in 1..Len(st.created) : st.created[j][1] = st.tracks[k].id
                       THEN StartTrack(st.tracks[k]) ELSE st.tracks[k]]),
        !.dets = Array([i \in 1..Len(st.dets) |->
                     IF \E j \in 1..Len(st.created) : st.created[j][2] = i
                     THEN StartDetection(st.dets[i]) ELSE st.dets[i]])]

\* The call up to the end of the matching step, speeds aside.
Associated(ts, id, dets) ==
    MatchTracks([tracks |-> Array([k \in 1..Len(ts) |-> Age(ts[k])]),
                 dets |-> Array(dets),
                 unmatched |-> 1..Len(ValidIndices(dets, 1)),
                 nextId |-> id,
                 claimed |-> <<>>,
                 created |-> <<>>,
                 flowDir |-> <<0, 1>>],
                ValidIndices(dets, 1), 1)

\* The rest of the call: the matched tracks' speeds, creation, the violation
\* pass, cleanup.
Completed(a, mo) ==
    [CheckViolations(StartTracks(CreateTracks(MoveTracks(a, 1, mo),
                                              ValidIndices(a.dets, 1), 1)),
                     ValidIndices(a.dets, 1))
        EXCEPT !.tracks = SelectSeq(@, Survives)]

\* The ids of the tracks that claimed a detection.
ClaimedIds(a) == {a.claimed[i][1] : i \in 1..Len(a.claimed)}

\* Whether a detection of the call carries the id.
Judged(dets, id) == \E i \in 1..Len(dets) : dets[i].trackId = id

\* runs: for each live track, over its most recent detections (judged frames),
\*   over:     how many in a row were over the limit,
\*   opposite: how many in a row met both wrong-way guards against the flow,
\*   guarded:  how many of those that met both guards were in a row against
\*             the flow,
\*   under:    how many in a row were not over the limit, for a track whose
\*             counter was at least 3 until then (0 otherwise),
\*   top:      the speeding counter when that row began (was: the counter
\*             when the call began).
NoRuns == [over |-> 0, opposite |-> 0, guarded |-> 0, under |-> 0, top |-> 0]

RunsAfter(old, was, t, flow) ==
    [under |-> IF ~OverLimit(t) /\ was >= 3 THEN old.under + 1 ELSE 0,
     top |-> IF ~OverLimit(t) /\ was >= 3
             THEN IF old.under = 0 THEN was ELSE old.top
             ELSE 0,
     over |-> IF OverLimit(t) THEN old.over + 1 ELSE 0,
     opposite |-> IF WrongWayGuard(t, flow) /\ AgainstFlow(t, flow)
                  THEN old.opposite + 1 ELSE 0,
     guarded |-> IF WrongWayGuard(t, flow)
                 THEN IF AgainstFlow(t, flow) THEN old.guarded + 1 ELSE 0
                 ELSE old.guarded]

Runs(r) ==
    Array([k \in 1..Len(r.tracks) |->
        LET old == IF Find(tracks, r.tracks[k].id) = 0 THEN NoRuns
                   ELSE runs[Find(tracks, r.tracks[k].id)]
            was == IF Find(tracks, r.tracks[k].id) = 0 THEN 0
                   ELSE tracks[Find(tracks, r.tracks[k].id)].speedingFrames
        IN IF Judged(r.dets, r.tracks[k].id)
           THEN RunsAfter(old, was, r.tracks[k], r.flowDir)
           ELSE old])

\* public update(detections, timestamp) on a frame of frames, the matched
\* tracks' motions drawn from motions[class].
MovingUpdate(frames, motions) ==
    /\ pc = "idle"
    /\ calls < MaxCalls
    /\ \E frame \in frames :
        \E a \in {Associated(tracks, nextId, frame)} :
         \E mo \in [ClaimedIds(a) -> UNION {motions[l] : l \in MovingLabels}] :
          /\ \A k \in 1..Len(tracks) :
                 tracks[k].id \in ClaimedIds(a) => mo[tracks[k].id] \in motions[tracks[k].class]
          /\ \E r \in {Completed(a, mo)} :
               /\ tracks' = r.tracks
               /\ nextId' = r.nextId
               /\ detections' = r.dets
               /\ given' = frame
               /\ before' = tracks
               /\ claimed' = r.claimed
               /\ created' = r.created
               /\ issued' = issued \o CreatedIds(r.created)
               /\ flowDir' = r.flowDir
               /\ calls' = calls + 1
               /\ runs' = Runs(r)
               /\ pc' = "update"
               /\ UNCHANGED kept
               /\ UNCHANGED owner

\* The frames of the two specifications: a bus and a car out of each other's
\* reach, each present or not.
Bus == MovingDetection("Bus", BoxC)

Car == MovingDetection("car", BoxB)

TrafficFrames == {<<>>, <<Bus>>, <<Car>>, <<Bus, Car>>}

\* Speeding: 60.5 km/h (displayed as 60, the bus' limit) and 61 km/h.
SpeedingMotions ==
    [l \in MovingLabels |->
        {[avg |-> <<121, 2>>, dir |-> 1], [avg |-> <<61, 1>>, dir |-> 1]}]

SpeedingUpdate == MovingUpdate(TrafficFrames, SpeedingMotions)

SpeedingNext == SpeedingUpdate \/ Reset \/ Return

SpecSpeeding == Init /\ [][SpeedingNext]_vars

\* Wrong way: a bus with the traffic at 90 or 10.5 km/h; a car against it at
\* 30 km/h or at 10.5 km/h (displayed as 10), or with it at 30 km/h.
WrongWayMotions ==
    [l \in MovingLabels |->
        IF l = "car"
        THEN {[avg |-> <<30, 1>>, dir |-> -1], [avg |-> <<21, 2>>, dir |-> -1],
              [avg |-> <<30, 1>>, dir |-> 1]}
        ELSE {[avg |-> <<90, 1>>, dir |-> 1], [avg |-> <<21, 2>>, dir |-> 1]}]

WrongWayUpdate == MovingUpdate(TrafficFrames, WrongWayMotions)

WrongWayNext == WrongWayUpdate \/ Reset \/ Return

SpecWrongWay == Init /\ [][WrongWayNext]_vars

----------------------------------------------------------------------------
\* update() with the filter computed: the first two frames of a tracker.
\*
\* Here a track carries all the fields of TrackedObject and a detection all the
\* fields update() writes.  Times are in ms; positions, heights and the filter
\* state are exact fractions of the normalized units of the source, which
\* computes them in double precision: the frames below keep every comparison
\* (speedMps < 0.8, Math.floor) clear of a tie.  The frames are limited to the
\* first two of a tracker, where the fractions stay small.

FracSub(a, b) == FracAdd(a, <<-b[1], b[2]>>)

\* (x[1] * y[1]) / (x[2] * y[2]) where that fits, rounded otherwise
Product(x, y, rounded) ==
    IF MulFits(x[1], y[1], 1000000000) /\ MulFits(x[2], y[2], 100000000)
    THEN Fraction(x[1] * y[1], x[2] * y[2])
    ELSE Fraction(rounded, 1000000)

\* a * b, cancelling before multiplying
FracMul(a, b) ==
    Product(Fraction(a[1], b[2]), Fraction(b[1], a[2]),
            SignOf(a[1], b[1])
                * MillionthsProduct(Magnitude(Millionths(a)), Magnitude(Millionths(b))))

\* a / b, b not 0: a times the reciprocal of b
FracDiv(a, b) ==
    Product(Fraction(a[1], Magnitude(b[1])),
            Fraction(IF b[1] < 0 THEN -b[2] ELSE b[2], a[2]),
            SignOf(a[1], b[1])
                * MillionthsQuotient(Magnitude(Millionths(a)), Magnitude(Millionths(b))))

\* Math.max
FracMax(a, b) == IF FracLess(a, b) THEN b ELSE a

\* reduce((a, b) => a + b, 0)
RECURSIVE SumFractions(_, _)
SumFractions(s, k) ==
    IF k > Len(s) THEN <<0, 1>> ELSE FracAdd(s[k], SumFractions(s, k + 1))

\* slice(-n)
LastOf(s, n) == SubSeq(s, Max(1, Len(s) - n + 1), Len(s))

\* Kalman Filter Tuning
R == <<5, 1000>>

Q_pos == <<1, 1000>>

Q_vel == <<8, 10>>

\* Typical lengths in meters, in the order of the keys of the object
REFERENCE_LENGTHS_METERS ==
    << <<"car", <<45, 10>>>>, <<"taxi", <<45, 10>>>>, <<"suv", <<48, 10>>>>,
       <<"van", <<52, 10>>>>, <<"truck", <<12, 1>>>>, <<"lorry", <<12, 1>>>>,
       <<"bus", <<12, 1>>>>, <<"pickup", <<52, 10>>>>,
       <<"motorcycle", <<22, 10>>>>, <<"bike", <<18, 10>>>>,
       <<"bicycle", <<18, 10>>>>, <<"person", <<5, 10>>>>,
       <<"pedestrian", <<5, 10>>>>, <<"human", <<5, 10>>>>,
       <<"default", <<45, 10>>>> >>

\* for (const key in REFERENCE_LENGTHS_METERS) from the k-th key on, then
\* REFERENCE_LENGTHS_METERS['default']
RECURSIVE LengthFrom(_, _)
LengthFrom(t, k) ==
    IF k > Len(REFERENCE_LENGTHS_METERS)
    THEN REFERENCE_LENGTHS_METERS[Len(REFERENCE_LENGTHS_METERS)][2]
    ELSE IF includes(t, REFERENCE_LENGTHS_METERS[k][1])
         THEN REFERENCE_LENGTHS_METERS[k][2]
         ELSE LengthFrom(t, k + 1)

\* Mutant of getReferenceLength: a label that matches no key has no length.
getReferenceLengthOfKnown(type) ==
    IF \E k \in 1..Len(REFERENCE_LENGTHS_METERS) :
           includes(toLowerCase(type), REFERENCE_LENGTHS_METERS[k][1])
    THEN LengthFrom(toLowerCase(type), 1)
    ELSE <<0, 1>>

\* getReferenceLength(type), for a type that is a string
getReferenceLength(type) == LengthFrom(toLowerCase(type), 1)

\* initKalman(y)
initKalman(y) ==
    [y |-> y, v |-> <<0, 1>>, p11 |-> <<1, 1>>, p12 |-> <<0, 1>>,
     p21 |-> <<0, 1>>, p22 |-> <<1, 1>>]

\* updateKalman, the prediction: pred_y, pred_v, pp11, pp12, pp21, pp22
Predicted(state, dt) ==
    [y |-> FracAdd(state.y, FracMul(state.v, dt)),
     v |-> state.v,
     p11 |-> FracAdd(FracAdd(FracAdd(state.p11,
                                     FracMul(dt, FracAdd(state.p12, state.p21))),
                             FracMul(FracMul(dt, dt), state.p22)),
                     FracMul(Q_pos, dt)),
     p12 |-> FracAdd(state.p12, FracMul(dt, state.p22)),
     p21 |-> FracAdd(state.p21, FracMul(dt, state.p22)),
     p22 |-> FracAdd(state.p22, FracMul(Q_vel, dt))]

\* Mutant of Gains: the velocity is corrected with the gain of the position.
GainsOfPosition(pred) ==
    [k1 |-> FracDiv(pred.p11, FracAdd(pred.p11, R)),
     k2 |-> FracDiv(pred.p11, FracAdd(pred.p11, R))]

\* updateKalman, the gains: s = pp11 + R, k1 = pp11 / s, k2 = pp21 / s
Gains(pred) ==
    [k1 |-> FracDiv(pred.p11, FracAdd(pred.p11, R)),
     k2 |-> FracDiv(pred.p21, FracAdd(pred.p11, R))]

\* updateKalman, the new state from the prediction, the gains and y_innov
Corrected(pred, gain, y_innov) ==
    [y |-> FracAdd(pred.y, FracMul(gain.k1, y_innov)),
     v |-> FracAdd(pred.v, FracMul(gain.k2, y_innov)),
     p11 |-> FracMul(FracSub(<<1, 1>>, gain.k1), pred.p11),
     p12 |-> FracMul(FracSub(<<1, 1>>, gain.k1), pred.p12),
     p21 |-> FracAdd(FracMul(<<-gain.k2[1], gain.k2[2]>>, pred.p11), pred.p21),
     p22 |-> FracAdd(FracMul(<<-gain.k2[1], gain.k2[2]>>, pred.p12), pred.p22)]

Correct(pred, measurement) ==
    Corrected(pred, Gains(pred), FracSub(measurement, pred.y))

\* updateKalman(state, measurement, dt)
updateKalman(state, measurement, dt) == Correct(Predicted(state, dt), measurement)

\* The vertical centroid and the height of a box, normalized.
CentroidY(box) == Fraction(getCentroid(box)[2], 2 * Span)

CentroidX(box) == Fraction(getCentroid(box)[1], 2 * Span)

Height(box) == Fraction(box[3] - box[1], Span)

\* Mutant of StationaryFilter: the raw speed is kept.
StationaryFilterOff(speedMps) == speedMps

\* if (speedMps < 0.8) speedMps = 0
StationaryFilter(speedMps) == IF FracLess(speedMps, <<8, 10>>) THEN <<0, 1>> ELSE speedMps

\* Mutant of updateLaneStatus: the five oldest samples instead of the five
\* newest.
updateLaneStatusOfOldest(laneStatus, laneHistory) ==
    IF Len(laneHistory) < 5 THEN laneStatus
    ELSE LET recent == SubSeq(laneHistory, 1, 5)
             minX == CHOOSE x \in {recent[k] : k \in 1..5} :
                         \A k \in 1..5 : ~FracLess(recent[k], x)
             maxX == CHOOSE x \in {recent[k] : k \in 1..5} :
                         \A k \in 1..5 : ~FracLess(x, recent[k])
         IN IF FracLess(<<5, 100>>, FracSub(maxX, minX)) THEN "Lane Change"
            ELSE "Stable"

\* updateLaneStatus(track), from the lane history
updateLaneStatus(laneStatus, laneHistory) ==
    IF Len(laneHistory) < 5 THEN laneStatus
    ELSE LET recent == LastOf(laneHistory, 5)
             minX == CHOOSE x \in {recent[k] : k \in 1..5} :
                         \A k \in 1..5 : ~FracLess(recent[k], x)
             maxX == CHOOSE x \in {recent[k] : k \in 1..5} :
                         \A k \in 1..5 : ~FracLess(x, recent[k])
         IN IF FracLess(<<5, 100>>, FracSub(maxX, minX)) THEN "Lane Change"
            ELSE "Stable"

\* const dt = (timestamp - track.updatedAt) / 1000
Dt(track, timestamp) == Fraction(timestamp - track.updatedAt, 1000)

\* Mutant of WithKalman: the filter runs whatever dt is.
WithKalmanAlways(track, match, timestamp) ==
    [track EXCEPT
        !.updatedAt = timestamp,
        !.kalman = updateKalman(@, CentroidY(match.box_2d), Dt(track, timestamp)),
        !.avgHeight = FracAdd(FracMul(@, <<9, 10>>),
                              FracMul(Height(match.box_2d), <<1, 10>>))]

\* Kalman Filter Update and Update State: updatedAt, kalman, avgHeight
WithKalman(track, match, timestamp) ==
    [track EXCEPT
        !.updatedAt = timestamp,
        !.kalman = IF FracLess(<<1, 1000>>, Dt(track, timestamp))
                   THEN updateKalman(@, CentroidY(match.box_2d), Dt(track, timestamp))
                   ELSE [@ EXCEPT !.y = CentroidY(match.box_2d)],
        !.avgHeight = FracAdd(FracMul(@, <<9, 10>>),
                              FracMul(Height(match.box_2d), <<1, 10>>))]

\* const perspectiveCorrection = 1.2 + (1.0 - newCentroid[1]) * 0.8
PerspectiveCorrection(y) ==
    FracAdd(<<12, 10>>, FracMul(FracSub(<<1, 1>>, y), <<8, 10>>))

\* let speedMps = (Math.abs(v_norm_per_sec) / safeHeight) * refLength
\*                * perspectiveCorrection
RawSpeedMps(v_norm_per_sec, avgHeight, class, y) ==
    FracMul(FracMul(FracDiv(FracAbs(v_norm_per_sec),
                            FracMax(avgHeight, <<2, 100>>)),
                    getReferenceLength(class)),
            PerspectiveCorrection(y))

\* speedMps after the stationary filter
SpeedMps(v_norm_per_sec, avgHeight, class, y) ==
    StationaryFilter(RawSpeedMps(v_norm_per_sec, avgHeight, class, y))

\* Mutant of Push: nothing is shifted out.
PushWithoutShift(history, item, n) == Append(history, item)

\* push(item), then shift() when longer than n
Push(history, item, n) ==
    IF Len(history) + 1 > n THEN Tail(Append(history, item))
    ELSE Append(history, item)

\* track.speedHistory.push(speedMps * 3.6), at most 20 samples
WithSpeed(track, y) ==
    [track EXCEPT
        !.speedHistory =
            Push(@, FracMul(SpeedMps(track.kalman.v, track.avgHeight, track.class, y),
                            <<36, 10>>),
                 20)]

\* avgSpeed: the mean of speedHistory.slice(-5)
AvgSpeed(speedHistory) ==
    FracDiv(SumFractions(LastOf(speedHistory, 5), 1),
            <<Len(LastOf(speedHistory, 5)), 1>>)

\* Update Track Physics: speed, velocity
WithPhysics(track) ==
    [track EXCEPT
        !.speed = FracFloor(AvgSpeed(track.speedHistory)),
        !.velocity = FracMul(AvgSpeed(track.speedHistory),
                             <<Sign(track.kalman.v[1]), 1>>)]

\* Lane Logic: laneHistory (at most 10), laneStatus
WithLane(track, x) ==
    [track EXCEPT
        !.laneHistory = Push(@, x, 10),
        !.laneStatus = updateLaneStatus(@, Push(track.laneHistory, x, 10))]

\* The body of `if (bestMatchIndex !== -1)` after the match is taken, for a
\* track and its match at time timestamp.
Estimate(track, match, timestamp) ==
    WithLane(WithPhysics(WithSpeed(WithKalman(track, match, timestamp),
                                   CentroidY(match.box_2d))),
             CentroidX(match.box_2d))

\* Mutant of SyncEstimate: match.speedHistory = track.speedHistory, the
\* track's own array.
SyncEstimateShared(det, track) ==
    [det EXCEPT !.estimatedSpeed = track.speed,
                !.laneEvent = track.laneStatus,
                !.speedHistory = track.speedHistory,
                !.shared = TRUE]

\* Sync to Detection; [...track.speedHistory] is a new array with the
\* samples of the track's: shared stays FALSE
SyncEstimate(det, track) ==
    [det EXCEPT !.estimatedSpeed = track.speed,
                !.laneEvent = track.laneStatus,
                !.speedHistory = track.speedHistory]

\* The estimate for the i-th claim of the call.
EstimateTrack(st, i, timestamp) ==
    [st EXCEPT
        !.tracks[Find(st.tracks, st.claimed[i][1])] =
            Estimate(@, st.dets[st.claimed[i][2]], timestamp),
        !.dets[st.claimed[i][2]] =
            SyncEstimate(@, Estimate(st.tracks[Find(st.tracks, st.claimed[i][1])],
                                     st.dets[st.claimed[i][2]], timestamp))]

RECURSIVE EstimateTracks(_, _, _)
EstimateTracks(st, i, timestamp) ==
    IF i > Len(st.claimed) THEN st
    ELSE EstimateTracks(EstimateTrack(st, i, timestamp), i + 1, timestamp)

\* const newTrack: TrackedObject = {...}
InitTrack(id, det, timestamp) ==
    [id |-> id, class |-> det.object, box |-> det.box_2d,
     centroid |-> getCentroid(det.box_2d),
     avgHeight |-> Height(det.box_2d),
     laneHistory |-> <<CentroidX(det.box_2d)>>,
     speedHistory |-> <<<<0, 1>>>>,
     missingFrames |-> 0,
     speed |-> 0,
     velocity |-> <<0, 1>>,
     laneStatus |-> "Stable",
     createdAt |-> timestamp,
     updatedAt |-> timestamp,
     wrongWayFrames |-> 0,
     speedingFrames |-> 0,
     kalman |-> initKalman(CentroidY(det.box_2d))]

\* Mutant of InitDetection: the new track's detection gets the id only.
InitDetectionIdOnly(det) == det

\* det.estimatedSpeed = 0; det.laneEvent = 'Stable'; det.speedHistory = [0]
InitDetection(det) ==
    [det EXCEPT !.estimatedSpeed = 0, !.laneEvent = "Stable",
                !.speedHistory = <<<<0, 1>>>>]

\* The j-th track the call created and its detection, with all their fields.
InitCreated(st, j, timestamp) ==
    [st EXCEPT
        !.tracks[Find(st.tracks, st.created[j][1])] =
            InitTrack(@.id, st.dets[st.created[j][2]], timestamp),
        !.dets[st.created[j][2]] = InitDetection(@)]

RECURSIVE InitAllCreated(_, _, _)
InitAllCreated(st, j, timestamp) ==
    IF j > Len(st.created) THEN st
    ELSE InitAllCreated(InitCreated(st, j, timestamp), j + 1, timestamp)

\* this.tracks.filter(t => t.missingFrames <= this.maxMissingFrames)
Cleaned(st) == [st EXCEPT !.tracks = SelectSeq(@, Survives)]

\* A detection with the fields update() writes and velocity, which the
\* consumers of the output read; "" and <<>> for undefined.  shared tells
\* whether the array in speedHistory is the array of the detection's track.
FullDetection(type, object, box) ==
    [type |-> type, object |-> object, box_2d |-> box,
     trackId |-> 0, synced |-> FALSE, analysed |-> FALSE,
     estimatedSpeed |-> -1, isSpeeding |-> FALSE, isWrongWay |-> FALSE,
     laneEvent |-> "", speedHistory |-> <<>>, velocity |-> <<>>,
     shared |-> FALSE]

\* The frames: a car and a bus, then the car further down by a shift with the
\* bus there or not, and a pedestrian.
CarBox == <<100, 100, 200, 200>>

BusBox == <<300, 300, 500, 450>>

Shifted(box, dy) == <<box[1] + dy, box[2], box[3] + dy, box[4]>>

Shifts == {0, 10, 40, 100}

CarAt(dy) == FullDetection("vehicle", "car", Shifted(CarBox, dy))

BusThere == FullDetection("vehicle", "Bus", BusBox)

Pedestrian == FullDetection("person", "person", BusBox)

FirstFrames ==
    {<<>>, <<CarAt(0)>>, <<BusThere>>, <<CarAt(0), BusThere>>,
     <<BusThere, CarAt(0)>>, <<Pedestrian, CarAt(0), BusThere>>}

SecondFrames ==
    {<<>>, <<BusThere>>}
        \cup {<<CarAt(dy)>> : dy \in Shifts}
        \cup {<<CarAt(dy), BusThere>> : dy \in Shifts}
        \cup {<<Pedestrian, BusThere, CarAt(dy)>> : dy \in Shifts}

\* The time of the first frame and the times of the second, in ms.
FirstTime == 0

SecondTimes == {0, 500, 1000}

\* A tracker none of whose tracks has been matched yet.
AllNew(ts) ==
    \A k \in 1..Len(ts) : Len(ts[k].speedHistory) = 1 /\ ts[k].missingFrames = 0

\* update(frame, timestamp): the matching step, the matched tracks' estimates,
\* creation, the violation pass, cleanup.
EstimatingUpdate(frame, timestamp) ==
    /\ pc = "idle"
    /\ \E a \in {Associated(tracks, nextId, frame)} :
        \E e \in {EstimateTracks(a, 1, timestamp)} :
         \E c \in {CreateTracks(e, ValidIndices(frame, 1), 1)} :
          \E n \in {InitAllCreated(c, 1, timestamp)} :
           \E r \in {Cleaned(CheckViolations(n, ValidIndices(frame, 1)))} :
              /\ tracks' = r.tracks
              /\ nextId' = r.nextId
              /\ detections' = r.dets
              /\ given' = frame
              /\ before' = tracks
              /\ claimed' = r.claimed
              /\ created' = r.created
              /\ issued' = issued \o CreatedIds(r.created)
              /\ flowDir' = r.flowDir
              /\ pc' = "update"
              /\ UNCHANGED <<calls, runs, kept>>
              /\ UNCHANGED owner

\* The first update() of a tracker.
FirstFrame ==
    /\ tracks = <<>>
    /\ nextId = 1
    /\ \E frame \in FirstFrames : EstimatingUpdate(frame, FirstTime)

\* The update() that follows it.
SecondFrame ==
    /\ tracks # <<>>
    /\ AllNew(tracks)
    /\ \E frame \in SecondFrames : \E t \in SecondTimes : EstimatingUpdate(frame, t)

ScenarioNext == FirstFrame \/ SecondFrame \/ Reset \/ Return

SpecScenario == Init /\ [][ScenarioNext]_vars

----------------------------------------------------------------------------
\* The helpers of the class, each called on its own on a new tracker.  kept
\* holds the call: the helper, its arguments and what it returned; a filter
\* that initKalman returned is then fed by calls of updateKalman.

tracker == <<tracks, nextId, pc, detections, given, before, claimed, created,
             issued, flowDir, calls, runs>>

\* The boxes of the calls: ymin <= ymax and xmin <= xmax on these lines of
\* the coordinate range.
GridLines == {0, 100, 500, 900, Span}

GridBoxes ==
    {<<ymin, xmin, ymax, xmax>> :
        ymin \in GridLines, xmin \in GridLines, ymax \in GridLines, xmax \in GridLines}
    \cap {b \in GridLines \X GridLines \X GridLines \X GridLines :
             b[1] <= b[3] /\ b[2] <= b[4]}

\* The labels of the calls.
HelperLabels ==
    {"", "car", "Bus", "Lorry", "Pickup Truck", "minibus", "autobus",
     "Auto Rickshaw", "motorbike", "motorcycle", "automobile", "caravan",
     "tractor", "SUV", "pedestrian"}

\* this.calculateIoU(boxA, boxB)
CallCalculateIoU ==
    /\ pc = "idle"
    /\ kept = <<>>
    /\ \E boxA \in GridBoxes, boxB \in GridBoxes :
          kept' = [helper |-> "calculateIoU", args |-> <<boxA, boxB>>,
                   result |-> calculateIoU(boxA, boxB)]
    /\ UNCHANGED tracker
    /\ UNCHANGED owner

\* The limit checkViolations picks for a track of a class.
CallSpeedLimit ==
    /\ pc = "idle"
    /\ kept = <<>>
    /\ \E class \in HelperLabels \cup {NoLabel} :
          kept' = [helper |-> "SpeedLimit", args |-> <<class>>,
                   result |-> SpeedLimit(class)]
    /\ UNCHANGED tracker
    /\ UNCHANGED owner

\* this.getReferenceLength(type)
CallGetReferenceLength ==
    /\ pc = "idle"
    /\ kept = <<>>
    /\ \E type \in HelperLabels :
          kept' = [helper |-> "getReferenceLength", args |-> <<type>>,
                   result |-> getReferenceLength(type)]
    /\ UNCHANGED tracker
    /\ UNCHANGED owner

\* The measurements fed to a filter: from one of the StartPositions, Rise
\* further every Period seconds, at most MaxFeeds times.
StartPositions == {<<0, 1>>, <<3, 20>>, <<2, 5>>, <<1, 2>>}

Rise == <<1, 100>>

Period == <<1, 10>>

MaxFeeds == 30

\* this.initKalman(y)
CallInitKalman ==
    /\ pc = "idle"
    /\ kept = <<>>
    /\ \E y \in StartPositions :
          kept' = [helper |-> "updateKalman", start |-> y, fed |-> 0,
                   state |-> initKalman(y)]
    /\ UNCHANGED tracker
    /\ UNCHANGED owner

\* this.updateKalman(state, measurement, dt) on the filter of the last call
CallUpdateKalman ==
    /\ pc = "idle"
    /\ kept # <<>>
    /\ kept.helper = "updateKalman"
    /\ kept.fed < MaxFeeds
    /\ kept' = [kept EXCEPT
                   !.fed = @ + 1,
                   !.state = updateKalman(@, FracAdd(kept.start,
                                                     FracMul(<<kept.fed + 1, 1>>, Rise)),
                                          Period)]
    /\ UNCHANGED tracker
    /\ UNCHANGED owner

HelperNext ==
    \/ CallCalculateIoU
    \/ CallSpeedLimit
    \/ CallGetReferenceLength
    \/ CallInitKalman
    \/ CallUpdateKalman

SpecHelpers == Init /\ [][HelperNext]_vars

----------------------------------------------------------------------------
\* update() frame after frame, on a tracker whose caller keeps the array the
\* call before returned.  A track without a class label stops the call when it
\* is matched: getReferenceLength(track.class) reads type.toLowerCase().

MaxFrames == 22

MaxStills == 4

\* The first claim of the call whose track has no class label, 0 for none.
ThrowAt(a) ==
    IF \E i \in 1..Len(a.claimed) :
           a.tracks[Find(a.tracks, a.claimed[i][1])].class = NoLabel
    THEN CHOOSE i \in 1..Len(a.claimed) :
           /\ a.tracks[Find(a.tracks, a.claimed[i][1])].class = NoLabel
           /\ \A j \in 1..(i - 1) :
                  a.tracks[Find(a.tracks, a.claimed[j][1])].class # NoLabel
    ELSE 0

\* The claims before the i-th.
ClaimsBefore(a, i) == [a EXCEPT !.claimed = SubSeq(@, 1, i - 1)]

\* The tracker and the frame where the TypeError leaves them: the tracks before
\* the i-th claim's are done (in done), the i-th claim's has its missingFrames,
\* box, centroid, updatedAt, kalman and avgHeight written, the others are
\* aged and no more; the detections from the i-th claim's on are as given.
Interrupted(a, done, i, ts, frame, timestamp) ==
    [tracks |-> Array([k \in 1..Len(a.tracks) |->
                    IF \E j \in 1..(i - 1) : a.claimed[j][1] = a.tracks[k].id
                    THEN done.tracks[k]
                    ELSE IF a.claimed[i][1] = a.tracks[k].id
                    THEN WithKalman(a.tracks[k], a.dets[a.claimed[i][2]], timestamp)
                    ELSE Age(ts[k])]),
     dets |-> Array([d \in 1..Len(a.dets) |->
                    IF \E j \in 1..(i - 1) : a.claimed[j][2] = d
                    THEN done.dets[d]
                    ELSE frame[d]])]

\* A detection the caller kept, as the caller reads it now: an array shared
\* with a track holds what the track's holds.
SeenBy(det, ts) ==
    IF det.shared /\ Find(ts, det.trackId) # 0
    THEN [det EXCEPT !.speedHistory = ts[Find(ts, det.trackId)].speedHistory]
    ELSE det

SeenAll(dets, ts) == Array([i \in 1..Len(dets) |-> SeenBy(dets[i], ts)])

\* update(frame, timestamp) as a whole, or up to the TypeError.
TrackingUpdate(frame, timestamp) ==
    /\ pc = "idle"
    /\ \E a \in {Associated(tracks, nextId, frame)} :
        IF ThrowAt(a) # 0
        THEN \E done \in {EstimateTracks(ClaimsBefore(a, ThrowAt(a)), 1, timestamp)} :
              \E r \in {Interrupted(a, done, ThrowAt(a), tracks, frame, timestamp)} :
                /\ tracks' = r.tracks
                /\ detections' = r.dets
                /\ claimed' = done.claimed
                /\ created' = <<>>
                /\ kept' = SeenAll(kept, r.tracks)
                /\ pc' = "throws"
                /\ UNCHANGED <<nextId, issued, flowDir>>
        ELSE \E e \in {EstimateTracks(a, 1, timestamp)} :
              \E c \in {CreateTracks(e, ValidIndices(frame, 1), 1)} :
               \E n \in {InitAllCreated(c, 1, timestamp)} :
                \E r \in {Cleaned(CheckViolations(n, ValidIndices(frame, 1)))} :
                  /\ tracks' = r.tracks
                  /\ nextId' = r.nextId
                  /\ detections' = r.dets
                  /\ claimed' = r.claimed
                  /\ created' = r.created
                  /\ issued' = issued \o CreatedIds(r.created)
                  /\ flowDir' = r.flowDir
                  /\ kept' = SeenAll(kept, r.tracks)
                  /\ pc' = "update"
    /\ given' = frame
    /\ before' = tracks
    /\ calls' = calls + 1
    /\ UNCHANGED runs

\* The call is over, returned or thrown: the caller keeps the array it passed.
Ended ==
    /\ pc # "idle"
    /\ kept' = detections
    /\ pc' = "idle"
    /\ detections' = <<>>
    /\ given' = <<>>
    /\ before' = <<>>
    /\ claimed' = <<>>
    /\ created' = <<>>
    /\ flowDir' = <<0, 1>>
    /\ UNCHANGED <<tracks, nextId, issued, calls, runs>>
    /\ UNCHANGED owner

\* The frames come 100 ms apart, the one of this call late ms early.
Timestamp(late) == 100 * (calls + 1) - late

Moved(box, dy, dx) == <<box[1] + dy, box[2] + dx, box[3] + dy, box[4] + dx>>

\* Where the k-th track saw its object last; start before there is one.
Where(ts, k, start) == IF Len(ts) >= k THEN ts[k].box ELSE start

\* A drive: one car that moves down the image by 10 a frame, to the right by 20
\* or not in the first eight frames, labelled "car" or "Bus" in the first two;
\* the third, fourth and fifth frame may miss it.
DriveFrames ==
    {<<FullDetection("vehicle", label,
                     IF tracks = <<>> THEN CarBox
                     ELSE Moved(tracks[1].box, 10 * (tracks[1].missingFrames + 1), dx))>> :
        label \in (IF calls < 2 THEN {"car", "Bus"} ELSE {"car"}),
        dx \in (IF calls < 8 /\ tracks # <<>> THEN {0, 20} ELSE {0})}
        \cup (IF calls >= 2 /\ calls < 5 THEN {<<>>} ELSE {})

DriveUpdate ==
    /\ calls < MaxFrames
    /\ \E frame \in DriveFrames : TrackingUpdate(frame, Timestamp(0))
    /\ UNCHANGED owner

DriveNext == DriveUpdate \/ Ended

SpecDrive == Init /\ [][DriveNext]_vars

\* A car that stands still next to a bus that moves down by 1 or by 40 a frame;
\* a frame may come 98 or 99 ms early.
StillFrames ==
    {<<CarAt(0), FullDetection("vehicle", "Bus",
                               IF Len(tracks) < 2 THEN BusBox
                               ELSE Moved(tracks[2].box, dy, 0))>> :
        dy \in {1, 40}}

StillUpdate ==
    /\ calls < MaxStills
    /\ \E frame \in StillFrames : \E late \in {0, 98, 99} :
           TrackingUpdate(frame, Timestamp(late))
    /\ UNCHANGED owner

StillNext == StillUpdate \/ Ended

SpecStill == Init /\ [][StillNext]_vars

\* Frames with entries the detector got wrong: a vehicle without a label, a
\* vehicle whose box has no area, an entry without a box.
Nameless == FullDetection("vehicle", NoLabel, CarBox)

Flat == FullDetection("vehicle", "car", <<600, 600, 600, 600>>)

Boxless == FullDetection("vehicle", "car", NoBox)

MalformedFrames ==
    {<<>>, <<Nameless>>, <<Flat>>, <<Flat, Nameless>>, <<Nameless, Flat>>,
     <<Boxless, Flat>>, <<BusThere, Nameless, Boxless>>}

MalformedUpdate ==
    /\ calls < MaxStills
    /\ \E frame \in MalformedFrames : TrackingUpdate(frame, Timestamp(0))
    /\ UNCHANGED owner

MalformedNext == MalformedUpdate \/ Ended

SpecMalformed == Init /\ [][MalformedNext]_vars

----------------------------------------------------------------------------
\* A tracker with a history is reset, a second tracker is constructed beside
\* it, and both are fed the same frames at the same times from there on.

\* update(frame, timestamp) of a tracker that holds ts and id: what it leaves.
WholeUpdate(ts, id, frame, timestamp) ==
    Cleaned(CheckViolations(
        InitAllCreated(
            CreateTracks(EstimateTracks(Associated(ts, id, frame), 1, timestamp),
                         ValidIndices(frame, 1), 1),
            1, timestamp),
        ValidIndices(frame, 1)))

\* new ObjectTracker()
Constructed == [tracks |-> <<>>, nextId |-> 1, dets |-> <<>>, fed |-> 0]

\* The second tracker after its update(frame, timestamp); fed counts its calls.
Fed(second, r) ==
    [tracks |-> r.tracks, nextId |-> r.nextId, dets |-> r.dets,
     fed |-> second.fed + 1]

TwinFrames ==
    {<<>>, <<CarAt(0)>>, <<CarAt(40)>>, <<CarAt(0), BusThere>>,
     <<BusThere, CarAt(10)>>}

\* One frame, to the tracker and to the second one if there is one.
TwinUpdate ==
    /\ calls < MaxStills
    /\ \E frame \in TwinFrames :
        /\ TrackingUpdate(frame, Timestamp(0))
        /\ fresh' = IF fresh = <<>> THEN fresh
                    ELSE Fed(fresh, WholeUpdate(fresh.tracks, fresh.nextId, frame,
                                                Timestamp(0)))
    /\ UNCHANGED app

\* reset() of a tracker that has handed out ids, and new ObjectTracker()
\* beside it.
TwinReset ==
    /\ pc = "idle"
    /\ nextId # 1
    /\ tracks' = ResetTracks
    /\ nextId' = ResetNextId
    /\ before' = tracks
    /\ issued' = <<>>
    /\ runs' = <<>>
    /\ pc' = "reset"
    /\ fresh' = Constructed
    /\ UNCHANGED <<detections, given, claimed, created, flowDir, calls, kept, app>>

TwinNext == TwinUpdate \/ TwinReset \/ Ended

SpecReset == Init /\ [][TwinNext]_vars

----------------------------------------------------------------------------
\* Frames that miss objects: a car that stands still and a bus that moves down
\* by 40 a frame while it is seen; a frame has both, the car alone, or nothing.

MissingFrames ==
    {<<>>, <<CarAt(0)>>,
     <<CarAt(0), FullDetection("vehicle", "Bus",
                               IF Len(tracks) < 2 THEN BusBox
                               ELSE Moved(tracks[2].box, 40, 0))>>}

MissingUpdate ==
    /\ calls < MaxCalls
    /\ \E frame \in MissingFrames : TrackingUpdate(frame, Timestamp(0))
    /\ UNCHANGED owner

MissingNext == MissingUpdate \/ Ended

SpecMissing == Init /\ [][MissingNext]_vars

----------------------------------------------------------------------------
\* Vocabulary of the properties.

\* The ids of the tracks of ts.
Ids(ts) == {ts[k].id : k \in 1..Len(ts)}

\* The positions of the tracks of ts that carry id.
Holders(ts, id) == {k \in 1..Len(ts) : ts[k].id = id}

\* A detection of type 'vehicle' that has a box.
VehicleWithBox(d) == d.type = "vehicle" /\ d.box_2d # NoBox

\* The detections (indices) of the call that are vehicles with a box.
Vehicles == {d \in 1..Len(given) : VehicleWithBox(given[d])}

\* The track with this id was matched in the call: the returned array
\* carries its id on a detection it did not create.
MatchedInCall(id) ==
    \E d \in 1..Len(detections) :
        /\ detections[d].trackId = id
        /\ \A j \in 1..Len(created) : created[j] # <<id, d>>

\* The detections claimed by the tracks that precede position k in this.tracks.
ClaimedBefore(k) ==
    {claimed[i][2] : i \in {i \in 1..Len(claimed) :
                               \E j \in 1..(k - 1) : before[j].id = claimed[i][1]}}

\* The vehicle detections still unclaimed when the track at position k searches.
UnclaimedAt(k) == Vehicles \ ClaimedBefore(k)

\* The detection the track at position k claimed (0: none).
ClaimOf(k) ==
    IF \E i \in 1..Len(claimed) : claimed[i][1] = before[k].id
    THEN (CHOOSE c \in {claimed[i] : i \in 1..Len(claimed)} : c[1] = before[k].id)[2]
    ELSE 0

\* IoU of the track's box with detection d, and their squared centroid distance.
IouWith(t, d) == calculateIoU(t.box, given[d].box_2d)

DistanceWith(t, d) == SquaredDistance(getCentroid(given[d].box_2d), t.centroid)

\* Detection d is within the association thresholds of track t.
InReach(t, d) ==
    AboveIouThreshold(IouWith(t, d)) \/ BelowDistanceThreshold(DistanceWith(t, d))

----------------------------------------------------------------------------
\* Properties of update() and reset().

\* C1: within one update() each track claims at most one detection, each
\* detection is claimed by at most one track, a claimed detection keeps the
\* id of the track that claimed it, and it does not also create a track.
C1_OneToOneMatching ==
    pc = "update" =>
        /\ \A i, j \in 1..Len(claimed) :
               i # j => claimed[i][1] # claimed[j][1] /\ claimed[i][2] # claimed[j][2]
        /\ \A i \in 1..Len(claimed) :
               /\ detections[claimed[i][2]].trackId = claimed[i][1]
               /\ \A j \in 1..Len(created) : created[j][2] # claimed[i][2]

\* C1 witness: two tracks each claim one of two detections that carry the
\* same box, so the second track had to leave the first detection alone.
C1_Witness ==
    /\ pc = "update"
    /\ Len(claimed) = 2
    /\ Len(given) = 2
    /\ given[1].box_2d = given[2].box_2d

\* C2: the ids handed out since construction or the last reset() are strictly
\* increasing in the order they were handed out (so none is handed out twice,
\* evicted or not), every live track carries one of them, and no two live
\* tracks share one.
C2_IdsStrictlyIncreasing ==
    /\ \A i, j \in 1..Len(issued) : i < j => issued[i] < issued[j]
    /\ \A k \in 1..Len(tracks) : \E i \in 1..Len(issued) : issued[i] = tracks[k].id
    /\ \A k, l \in 1..Len(tracks) : k # l => tracks[k].id # tracks[l].id

\* C2 witness: a track is created after an earlier track was evicted.
C2_Witness ==
    /\ pc = "update"
    /\ created # <<>>
    /\ \E i \in 1..Len(issued) :
           /\ issued[i] < created[1][1]
           /\ issued[i] \notin Ids(tracks)
           /\ issued[i] \notin Ids(before)

\* C3: at the end of reset() the live set is empty and numbering restarts:
\* the first id handed out after it (as after construction) is 1.
C3_ResetRestartsNumbering ==
    /\ pc = "reset" => tracks = <<>> /\ nextId = 1
    /\ issued # <<>> => issued[1] = 1
    /\ (pc = "update" /\ created # <<>> /\ Len(issued) = Len(created)) => created[1][1] = 1

\* C3 witness: reset() called mid-session, with two live tracks of which one
\* has gone missing, after ids 1 and 2 were handed out.
C3_Witness ==
    /\ pc = "reset"
    /\ Len(before) = 2
    /\ \E k \in 1..Len(before) : before[k].missingFrames > 0
    /\ tracks = <<>>

\* C4: a track that existed before the call and is live after it has
\* missingFrames 0 if it was matched in the call and one more than before if
\* it was not; a track created in the call has missingFrames 0.
C4_MissingFramesStep ==
    pc = "update" =>
        /\ \A k \in 1..Len(before) : \A l \in Holders(tracks, before[k].id) :
               IF MatchedInCall(before[k].id)
               THEN tracks[l].missingFrames = 0
               ELSE tracks[l].missingFrames = before[k].missingFrames + 1
        /\ \A j \in 1..Len(created) : \A l \in Holders(tracks, created[j][1]) :
               tracks[l].missingFrames = 0
        /\ \A j \in 1..Len(created) : Holders(tracks, created[j][1]) # {}
        /\ \A k \in 1..Len(before) :
               MatchedInCall(before[k].id) => Holders(tracks, before[k].id) # {}

\* C4 witness: in one call a track that had been missing for two frames is
\* matched (back to 0) while another one goes unmatched (one more).
C4_Witness ==
    /\ pc = "update"
    /\ \E k, l \in 1..Len(before) :
           /\ before[k].missingFrames = 2
           /\ MatchedInCall(before[k].id)
           /\ ~MatchedInCall(before[l].id)
           /\ Holders(tracks, before[l].id) # {}

\* C5: every live track has missingFrames in 0..5; a track that goes unmatched
\* in a call is kept when this was at most its 5th consecutive miss and
\* removed when it was its 6th.
C5_EvictionAtSixthMiss ==
    /\ \A k \in 1..Len(tracks) : tracks[k].missingFrames \in 0..5
    /\ pc = "update" =>
           \A k \in 1..Len(before) :
               ~MatchedInCall(before[k].id) =>
                   /\ before[k].missingFrames < 5 => Holders(tracks, before[k].id) # {}
                   /\ before[k].missingFrames = 5 => Holders(tracks, before[k].id) = {}

\* C5 witness: a track that had missed 5 frames misses a 6th and is gone,
\* while a track that had missed fewer is kept.
C5_Witness ==
    /\ pc = "update"
    /\ \E k \in 1..Len(before) :
           before[k].missingFrames = 5 /\ before[k].id \notin Ids(tracks)
    /\ \E k \in 1..Len(before) :
           /\ before[k].missingFrames \in 1..4
           /\ ~MatchedInCall(before[k].id)
           /\ before[k].id \in Ids(tracks)


\* C6, as claimed: a vehicle detection that carries the box a track was
\* matched to or created from in the previous frame is returned with that
\* track's id, whatever other tracks and detections are present.  (Read for a
\* box of non-zero area that no other live track and no other detection of
\* the frame carries.)
C6_IdentityStability ==
    pc = "update" =>
        \A k \in 1..Len(before) : \A d \in Vehicles :
            ( /\ before[k].missingFrames = 0
              /\ given[d].box_2d = before[k].box
              /\ before[k].box[1] < before[k].box[3]
              /\ before[k].box[2] < before[k].box[4]
              /\ \A j \in 1..Len(before) : j # k => before[j].box # before[k].box
              /\ \A e \in Vehicles : e # d => given[e].box_2d # given[d].box_2d )
            => detections[d].trackId = before[k].id

\* C6, amended: a vehicle detection within the association thresholds of a
\* track that was matched or created in the previous frame (its box unchanged,
\* or IoU above 0.25, or centroid distance below 0.15) is returned with that
\* track's id, provided no track earlier in this.tracks is within the
\* thresholds of that detection and no other vehicle detection of the frame
\* is within the thresholds of the track.
C6_StableWhenUncontested ==
    pc = "update" =>
        \A k \in 1..Len(before) : \A d \in Vehicles :
            ( /\ before[k].missingFrames = 0
              /\ InReach(before[k], d)
              /\ \A j \in 1..(k - 1) : ~InReach(before[j], d)
              /\ \A e \in Vehicles : e # d => ~InReach(before[k], e) )
            => detections[d].trackId = before[k].id

\* C6 witness: the second track of this.tracks keeps its id on its unchanged
\* box while the first track and a second detection are present, out of reach.
C6_Witness ==
    /\ pc = "update"
    /\ Len(before) = 2
    /\ Len(given) = 2
    /\ \E d, e \in Vehicles :
           /\ d # e
           /\ before[2].missingFrames = 0
           /\ given[d].box_2d = before[2].box
           /\ ~InReach(before[1], d)
           /\ ~InReach(before[2], e)
           /\ detections[d].trackId = before[2].id

\* C7: a detection that is not of type 'vehicle', or has no box, is returned
\* as it was given, and no claim and no created track refers to it.
C7_UntrackedPassThrough ==
    pc = "update" =>
        \A d \in 1..Len(given) :
            ~VehicleWithBox(given[d]) =>
                /\ detections[d] = given[d]
                /\ \A i \in 1..Len(claimed) : claimed[i][2] # d
                /\ \A j \in 1..Len(created) : created[j][2] # d

\* C7 witness: a frame of a person whose box lies on a live track's box and a
\* vehicle without a box; the track goes unmatched and nothing is created.
C7_Witness ==
    /\ pc = "update"
    /\ Len(given) = 2
    /\ \E d, e \in 1..Len(given) :
           /\ given[d].type # "vehicle" /\ given[d].box_2d # NoBox
           /\ given[e].type = "vehicle" /\ given[e].box_2d = NoBox
           /\ \E k \in 1..Len(before) : before[k].box = given[d].box_2d
    /\ claimed = <<>>
    /\ created = <<>>
    /\ detections = given

\* C8: update() returns the detections it was given, in their order, and every
\* vehicle detection with a box carries a track id >= 1, two of them never the
\* same one.
C8_EveryVehicleGetsDistinctId ==
    pc = "update" =>
        /\ Len(detections) = Len(given)
        /\ \A d \in 1..Len(given) :
               /\ detections[d].type = given[d].type
               /\ detections[d].object = given[d].object
               /\ detections[d].box_2d = given[d].box_2d
        /\ \A d \in Vehicles : detections[d].trackId >= 1
        /\ \A d, e \in Vehicles : d # e => detections[d].trackId # detections[e].trackId

\* C8 witness: two vehicle detections with the same box, one matched to the
\* live track and one creating a track.
C8_Witness ==
    /\ pc = "update"
    /\ Vehicles = {1, 2}
    /\ given[1].box_2d = given[2].box_2d
    /\ Len(claimed) = 1
    /\ Len(created) = 1

\* C9, as claimed: a track that has an unclaimed detection with IoU above
\* 0.25 claims the unclaimed detection of highest IoU, whatever the order of
\* the detections and whatever a distance candidate scores.
C9_IouCandidateWins ==
    pc = "update" =>
        \A k \in 1..Len(before) :
            LET byIou == {d \in UnclaimedAt(k) : AboveIouThreshold(IouWith(before[k], d))}
            IN byIou # {} =>
                   /\ ClaimOf(k) \in byIou
                   /\ \A d \in byIou :
                          IouWith(before[k], d)[1] * IouWith(before[k], ClaimOf(k))[2]
                              <= IouWith(before[k], ClaimOf(k))[1] * IouWith(before[k], d)[2]

\* C10, as claimed: a track that has no unclaimed detection with IoU above
\* 0.25 claims the nearest of the unclaimed detections at centroid distance
\* below 0.15, and nothing if there is none.
C10_NearestDistanceCandidateWins ==
    pc = "update" =>
        \A k \in 1..Len(before) :
            LET byIou == {d \in UnclaimedAt(k) : AboveIouThreshold(IouWith(before[k], d))}
                near == {d \in UnclaimedAt(k) : BelowDistanceThreshold(DistanceWith(before[k], d))}
            IN byIou = {} =>
                   IF near = {} THEN ClaimOf(k) = 0
                   ELSE /\ ClaimOf(k) \in near
                        /\ \A d \in near :
                               DistanceWith(before[k], ClaimOf(k)) <= DistanceWith(before[k], d)

\* C11: the live tracks are held in strictly ascending id order; within one
\* update() the tracks claim in that order, and a track never claims a
\* detection that a track before it has claimed, also when its own IoU with
\* that detection is the higher one.
C11_GreedyInTrackOrder ==
    /\ \A k, l \in 1..Len(tracks) : k < l => tracks[k].id < tracks[l].id
    /\ pc = "update" =>
           /\ \A i, j \in 1..Len(claimed) : i < j => claimed[i][1] < claimed[j][1]
           /\ \A k \in 1..Len(before) : ClaimOf(k) \notin ClaimedBefore(k)
           /\ \A k \in 1..Len(before) : \A d \in ClaimedBefore(k) :
                  \E j \in 1..(k - 1) : detections[d].trackId = before[j].id

\* C11 witness: the first track claims a detection with which the second
\* track has the higher IoU; the second track goes without it.
C11_Witness ==
    /\ pc = "update"
    /\ Len(before) = 2
    /\ \E d \in Vehicles :
           /\ ClaimOf(1) = d
           /\ AboveIouThreshold(IouWith(before[2], d))
           /\ IouWith(before[1], d)[1] * IouWith(before[2], d)[2]
                  < IouWith(before[2], d)[1] * IouWith(before[1], d)[2]
           /\ detections[d].trackId = before[1].id
           /\ ClaimOf(2) # d

----------------------------------------------------------------------------
\* Properties of the violation pass.

\* The detections of the call that carry a track id.
Tracked == {d \in 1..Len(detections) : detections[d].trackId # 0}

\* The track of a tracked detection at the end of the call, that track at the
\* start of the call (for a detection that was matched), and its runs.
TrackOf(d) == tracks[Find(tracks, detections[d].trackId)]

WasLive(d) == Find(before, detections[d].trackId) # 0

BeforeOf(d) == before[Find(before, detections[d].trackId)]

RunsOf(d) == runs[Find(tracks, detections[d].trackId)]

C14_SpeedingCounterDecays ==
    /\ \A k \in 1..Len(tracks) : tracks[k].speedingFrames >= 0
    /\ pc = "update" =>
           \A d \in Tracked :
               ~OverLimit(TrackOf(d)) =>
                   IF WasLive(d) /\ BeforeOf(d).speedingFrames > 0
                   THEN TrackOf(d).speedingFrames = BeforeOf(d).speedingFrames - 1
                   ELSE TrackOf(d).speedingFrames = 0

\* C14 witness: a frame not over the limit takes the counter from 3 to 2.
C14_Witness ==
    /\ pc = "update"
    /\ \E d \in Tracked :
           /\ WasLive(d)
           /\ ~OverLimit(TrackOf(d))
           /\ BeforeOf(d).speedingFrames = 3
           /\ TrackOf(d).speedingFrames = 2

\* The guards and the direction test of a tracked detection in this call.
Guarded(d) == WrongWayGuard(TrackOf(d), flowDir)

Against(d) == AgainstFlow(TrackOf(d), flowDir)

\* The wrong-way counter of a tracked detection's track when the call began.
WrongWayFramesBefore(d) == IF WasLive(d) THEN BeforeOf(d).wrongWayFrames ELSE 0

\* this.tracks when checkViolations ran: the tracks the cleanup kept and the
\* ones it dropped (unmatched in the call, so with the speed they had).
Dropped == SelectSeq(before, LAMBDA t : Find(tracks, t.id) = 0)

TracksAtViolations == tracks \o Dropped

C16_NoFlagOutsideGuards ==
    pc = "update" =>
        \A d \in Tracked : ~Guarded(d) => ~detections[d].isWrongWay

C18_FlowIsMeanOfMovingTracks ==
    pc = "update" =>
        LET moving == SelectSeq(TracksAtViolations, LAMBDA t : t.speed > 5)
            sum == SumVelocity(moving, 1)
        IN /\ flowDir = IF Len(moving) = 0 THEN <<0, 1>>
                        ELSE Fraction(sum[1], sum[2] * Len(moving))
           /\ \A d \in Tracked :
                  (Len(moving) = 1 /\ moving[1].id = detections[d].trackId) =>
                      /\ TrackOf(d).wrongWayFrames <= WrongWayFramesBefore(d)
                      /\ Guarded(d) => TrackOf(d).wrongWayFrames = 0

\* C18 witness: the flow is the velocity of a bus that was not matched in the
\* call and is dropped by it, while the car in the frame is slower than
\* 5 km/h.
C18_Witness ==
    /\ pc = "update"
    /\ \E k \in 1..Len(Dropped) :
           /\ Dropped[k].speed > 5
           /\ flowDir = Dropped[k].velocity
    /\ \E d \in Tracked : TrackOf(d).speed <= 5

----------------------------------------------------------------------------
\* Properties of the first two frames.

\* The indices in detections of the vehicle detections with a box that no
\* track claimed.
Unclaimed ==
    {ValidIndices(given, 1)[k] : k \in 1..Len(ValidIndices(given, 1))}
        \ {claimed[i][2] : i \in 1..Len(claimed)}

\* C19: every vehicle detection (with a box) that no track claimed creates
\* exactly one track; the tracks a call creates have consecutive ids, from
\* nextId on, in the order of the detections in the input (1 and 2 for two
\* detections given to a tracker that has issued no id yet); each of these
\* detections is returned with the track's id, estimatedSpeed 0, laneEvent
\* Stable, speedHistory [0] and neither flag set.
C19_UnclaimedDetectionsCreateTracks ==
    pc = "update" =>
        /\ Unclaimed = {created[j][2] : j \in 1..Len(created)}
        /\ Cardinality(Unclaimed) = Len(created)
        /\ \A j \in 1..Len(created) :
               /\ created[j][1] = nextId - Len(created) + j - 1
               /\ j > 1 => created[j - 1][2] < created[j][2]
               /\ Len(issued) = Len(created) => created[j][1] = j
               /\ Find(before, created[j][1]) = 0
               /\ Cardinality({k \in 1..Len(tracks) : tracks[k].id = created[j][1]}) = 1
               /\ detections[created[j][2]].trackId = created[j][1]
               /\ detections[created[j][2]].estimatedSpeed = 0
               /\ detections[created[j][2]].laneEvent = "Stable"
               /\ detections[created[j][2]].speedHistory = <<<<0, 1>>>>
               /\ ~detections[created[j][2]].isSpeeding
               /\ ~detections[created[j][2]].isWrongWay

\* C19 witness: a pedestrian, a car and a bus given to a new tracker: the car
\* and the bus get the ids 1 and 2.
C19_Witness ==
    /\ pc = "update"
    /\ before = <<>>
    /\ Len(given) = 3
    /\ created = <<<<1, 2>>, <<2, 3>>>>
    /\ detections[2].estimatedSpeed = 0
    /\ detections[3].speedHistory = <<<<0, 1>>>>

\* The second frame of the scenario: after the car and the bus at time 0, the
\* car alone, 10 units further down, at time 500.
ScenarioSecondFrame ==
    /\ pc = "update"
    /\ before = <<InitTrack(1, CarAt(0), FirstTime), InitTrack(2, BusThere, FirstTime)>>
    /\ given = <<CarAt(10)>>
    /\ Find(tracks, 1) # 0
    /\ tracks[Find(tracks, 1)].updatedAt = 500

\* The parts of the scenario's outcome other than the speed: the car keeps
\* id 1, the bus track is live with missingFrames 1, and no detection carries
\* its id.
ScenarioIdentities ==
    /\ Len(detections) = 1
    /\ detections[1].trackId = 1
    /\ Find(tracks, 2) # 0
    /\ tracks[Find(tracks, 2)].missingFrames = 1
    /\ \A d \in 1..Len(detections) : detections[d].trackId # 2

\* C20, as claimed: in the second frame of the scenario the car is returned
\* with track id 1 and an estimated speed above 0, the bus track is live with
\* missingFrames 1 and no bus detection is returned.
C20_SecondFramePositiveSpeed ==
    ScenarioSecondFrame =>
        /\ ScenarioIdentities
        /\ detections[1].estimatedSpeed > 0

\* C20, amended: in the second frame of the scenario the car is returned with
\* track id 1 and estimated speed 0, its speed sample for the frame being 0;
\* the bus track is live with missingFrames 1 and no bus detection is
\* returned.
C20_SecondFrameSpeedZero ==
    ScenarioSecondFrame =>
        /\ ScenarioIdentities
        /\ detections[1].estimatedSpeed = 0
        /\ detections[1].speedHistory = <<<<0, 1>>, <<0, 1>>>>

\* C20 witness: the second frame of the scenario, the car matched by track 1
\* whose filter has a positive velocity.
C20_Witness ==
    /\ ScenarioSecondFrame
    /\ detections[1].trackId = 1
    /\ detections[1].estimatedSpeed = 0
    /\ tracks[Find(tracks, 1)].kalman.v = <<10, 2511>>

----------------------------------------------------------------------------
\* Properties of the helpers.

\* The helper of the call kept holds.
Called(helper) == kept # <<>> /\ kept.helper = helper

\* Two boxes whose interiors share no point.
Apart(boxA, boxB) ==
    \/ boxA[3] <= boxB[1] \/ boxB[3] <= boxA[1]
    \/ boxA[4] <= boxB[2] \/ boxB[4] <= boxA[2]

Area(box) == (box[3] - box[1]) * (box[4] - box[2])

\* C26: for well-formed boxes on the 0..1000 range calculateIoU returns a
\* value from 0 to 1, the same for both orders of its arguments, 1 for two
\* identical boxes of non-zero area, 0 for boxes that do not overlap, and 0
\* when the union area is 0 (two boxes of zero area).
C26_IoUOfWellFormedBoxes ==
    Called("calculateIoU") =>
        /\ kept.result[2] > 0
        /\ 0 <= kept.result[1]
        /\ kept.result[1] <= kept.result[2]
        /\ kept.result = calculateIoU(kept.args[2], kept.args[1])
        /\ (kept.args[1] = kept.args[2] /\ Area(kept.args[1]) # 0) => kept.result = <<1, 1>>
        /\ Apart(kept.args[1], kept.args[2]) => kept.result = <<0, 1>>
        /\ (Area(kept.args[1]) = 0 /\ Area(kept.args[2]) = 0) => kept.result = <<0, 1>>

\* C26 witness: [0,0,500,500] and [0,100,500,900] overlap in part and have
\* the IoU 4/9.
C26_Witness ==
    /\ Called("calculateIoU")
    /\ kept.args = <<<<0, 0, 500, 500>>, <<0, 100, 500, 900>>>>
    /\ kept.result = <<4, 9>>

\* The labels of the calls that contain, case aside, 'bus', 'truck' or
\* 'lorry', and those of the rest that contain 'rickshaw', 'auto' or 'bike'.
HeavyLabels == {"Bus", "Lorry", "Pickup Truck", "minibus", "autobus"}

LightLabels == {"Auto Rickshaw", "motorbike", "automobile"}

\* The labels of the calls that contain no key of the table of lengths.
UnlistedLabels == {"", "tractor", "automobile", "Auto Rickshaw"}

\* C27: the speed limit of a class is 60 km/h when its label contains 'bus',
\* 'truck' or 'lorry', otherwise 50 km/h when it contains 'rickshaw', 'auto'
\* or 'bike', otherwise 80 km/h; getReferenceLength returns the default of
\* 4.5 m for a label that contains no key of its table.
C27_LimitAndLengthByLabel ==
    /\ Called("SpeedLimit") =>
           kept.result = IF kept.args[1] \in HeavyLabels THEN 60
                         ELSE IF kept.args[1] \in LightLabels THEN 50
                              ELSE 80
    /\ (Called("getReferenceLength") /\ kept.args[1] \in UnlistedLabels) =>
           kept.result = <<45, 10>>

\* C27 witness: 'autobus' contains 'auto' and 'bus' and gets the limit of 60.
C27_Witness ==
    /\ Called("SpeedLimit")
    /\ kept.args[1] = "autobus"
    /\ kept.result = 60

\* C30: after 10 or more measurements that rise by 0.01 every 0.1 s, without
\* noise, the velocity of the filter is within 5% of the rate of 0.1 per
\* second.
C30_KalmanConvergence ==
    (Called("updateKalman") /\ kept.fed >= 10) =>
        ~FracLess(<<5, 1000>>, FracAbs(FracSub(kept.state.v, <<1, 10>>)))

\* C30 witness: a filter after its 10th measurement, with a velocity that is
\* not yet the rate.
C30_Witness ==
    /\ Called("updateKalman")
    /\ kept.fed = 10
    /\ kept.state.v # <<1, 10>>
    /\ FracLess(<<1, 10>>, kept.state.v)

----------------------------------------------------------------------------
\* Properties of update() over many frames.  In a call that returned, the
\* i-th claim is of the track WasTrack(i) before the call and IsTrack(i) after
\* it, matched by the detection given[MatchOf(i)].

Returned == pc = "update"

MatchOf(i) == claimed[i][2]

WasTrack(i) == before[Find(before, claimed[i][1])]

IsTrack(i) == tracks[Find(tracks, claimed[i][1])]

\* timestamp - track.updatedAt of the i-th claim, in ms
Elapsed(i) == IsTrack(i).updatedAt - WasTrack(i).updatedAt

Measured(i) == CentroidY(given[MatchOf(i)].box_2d)

\* C29: a track matched with dt <= 0.001 has its filter's position set to the
\* measured vertical centroid, the velocity and the covariance as they were;
\* with dt > 0.001 the filter is the result of the predict/update step.
C29_SnapOrFilter ==
    Returned =>
        \A i \in 1..Len(claimed) :
            IF Elapsed(i) <= 1
            THEN /\ IsTrack(i).kalman.y = Measured(i)
                 /\ IsTrack(i).kalman.v = WasTrack(i).kalman.v
                 /\ IsTrack(i).kalman.p11 = WasTrack(i).kalman.p11
                 /\ IsTrack(i).kalman.p12 = WasTrack(i).kalman.p12
                 /\ IsTrack(i).kalman.p21 = WasTrack(i).kalman.p21
                 /\ IsTrack(i).kalman.p22 = WasTrack(i).kalman.p22
            ELSE IsTrack(i).kalman =
                     updateKalman(WasTrack(i).kalman, Measured(i),
                                  Fraction(Elapsed(i), 1000))

\* C29 witness: a track with a velocity matched 1 ms after its last update by
\* a detection that is not where the filter was.
C29_Witness ==
    /\ Returned
    /\ \E i \in 1..Len(claimed) :
           /\ Elapsed(i) = 1
           /\ WasTrack(i).kalman.v # <<0, 1>>
           /\ WasTrack(i).kalman.y # Measured(i)
           /\ IsTrack(i).kalman.y = Measured(i)

\* The raw speed estimate of the i-th claim, in m/s, before the stationary
\* filter.
RawEstimate(i) ==
    RawSpeedMps(IsTrack(i).kalman.v, IsTrack(i).avgHeight, IsTrack(i).class,
                Measured(i))

Newest(history) == history[Len(history)]

AllZero(history) == \A k \in 1..Len(history) : history[k] = <<0, 1>>

\* C21: the car whose box is the same in every frame is returned with
\* estimated speed 0 in every frame, its track's samples all 0; and a matched
\* track whose raw speed estimate of the frame is below 0.8 m/s gets 0 as the
\* sample of the frame.
C21_SpeedFloor ==
    Returned =>
        /\ \A d \in 1..Len(detections) :
               detections[d].box_2d = CarBox =>
                   /\ detections[d].trackId # 0
                   /\ detections[d].estimatedSpeed = 0
                   /\ AllZero(detections[d].speedHistory)
                   /\ AllZero(tracks[Find(tracks, detections[d].trackId)].speedHistory)
        /\ \A i \in 1..Len(claimed) :
               FracLess(RawEstimate(i), <<8, 10>>) =>
                   Newest(IsTrack(i).speedHistory) = <<0, 1>>

\* C21 witness: the fourth frame of the standing car, matched three times,
\* next to a track whose raw estimate of the frame is above 0 and below
\* 0.8 m/s.
C21_Witness ==
    /\ Returned
    /\ \E d \in 1..Len(detections) :
           /\ detections[d].box_2d = CarBox
           /\ detections[d].estimatedSpeed = 0
           /\ Len(detections[d].speedHistory) = 4
    /\ \E i \in 1..Len(claimed) :
           /\ FracLess(<<0, 1>>, RawEstimate(i))
           /\ FracLess(RawEstimate(i), <<8, 10>>)
           /\ Newest(IsTrack(i).speedHistory) = <<0, 1>>

\* A track of before that the call keeps: matched, or missing for at most
\* maxMissingFrames frames with this one.
Stays(t) ==
    \/ \E i \in 1..Len(claimed) : claimed[i][1] = t.id
    \/ t.missingFrames + 1 <= maxMissingFrames

\* C28: the tracks a call keeps stand after it where they stood among the
\* kept ones, each with the id, the class label and the creation timestamp it
\* had before the call, whatever the label of the detection that matched it.
C28_IdClassCreatedAtFixed ==
    Returned =>
        /\ Len(tracks) = Len(SelectSeq(before, Stays)) + Len(created)
        /\ \A k \in 1..Len(SelectSeq(before, Stays)) :
               /\ tracks[k].id = SelectSeq(before, Stays)[k].id
               /\ tracks[k].class = SelectSeq(before, Stays)[k].class
               /\ tracks[k].createdAt = SelectSeq(before, Stays)[k].createdAt

\* C28 witness: a track matched by a detection with another label, in a call
\* later than the one that created it.
C28_Witness ==
    /\ Returned
    /\ \E i \in 1..Len(claimed) :
           /\ given[MatchOf(i)].object # WasTrack(i).class
           /\ IsTrack(i).class = WasTrack(i).class
           /\ IsTrack(i).createdAt < IsTrack(i).updatedAt

\* The places of the five newest samples of a history of five or more.
NewestFive(history) == (Len(history) - 4)..Len(history)

\* Two of the five newest samples lie more than 0.05 apart.
Spread(history) ==
    \E a \in NewestFive(history) : \E b \in NewestFive(history) :
        FracLess(<<5, 100>>, FracSub(history[a], history[b]))

\* C25: a matched track whose lane history has fewer than 5 samples keeps its
\* lane status; with 5 or more its status is Lane Change if the largest and
\* the smallest of the 5 newest x-centroids are more than 0.05 apart, Stable
\* otherwise, and the detection carries that status; no track and no
\* detection, returned or kept by the caller, has the value Merging.
C25_LaneStatusFromSpread ==
    /\ \A k \in 1..Len(tracks) : tracks[k].laneStatus # "Merging"
    /\ \A d \in 1..Len(detections) : detections[d].laneEvent # "Merging"
    /\ \A d \in 1..Len(kept) : kept[d].laneEvent # "Merging"
    /\ Returned =>
        \A i \in 1..Len(claimed) :
            /\ IsTrack(i).laneStatus =
                   IF Len(IsTrack(i).laneHistory) < 5 THEN WasTrack(i).laneStatus
                   ELSE IF Spread(IsTrack(i).laneHistory) THEN "Lane Change"
                   ELSE "Stable"
            /\ detections[MatchOf(i)].laneEvent = IsTrack(i).laneStatus

\* C25 witness: a track with more than 5 samples whose status was Lane Change
\* and is Stable again, the spread of its 5 newest samples being above 0.
C25_Witness ==
    /\ Returned
    /\ \E i \in 1..Len(claimed) :
           /\ Len(IsTrack(i).laneHistory) > 5
           /\ WasTrack(i).laneStatus = "Lane Change"
           /\ IsTrack(i).laneStatus = "Stable"
           /\ \E a \in NewestFive(IsTrack(i).laneHistory) :
                  \E b \in NewestFive(IsTrack(i).laneHistory) :
                      FracLess(<<0, 1>>, FracSub(IsTrack(i).laneHistory[a],
                                                 IsTrack(i).laneHistory[b]))

\* A history without its newest sample.
Front(history) == SubSeq(history, 1, Len(history) - 1)

\* What a push leaves of a history that holds at most n samples: all of it,
\* or all but the oldest when it was full.
Remaining(history, n) == IF Len(history) = n THEN Tail(history) ELSE history

\* C24: a track's speed history holds at most 20 samples and its lane history
\* at most 10; a match appends one sample to each, after dropping the oldest
\* of a full buffer and with the others in their order; and the speed history
\* on a detection the caller kept from the call before is, after this call,
\* still the one the track had when that call returned.
C24_BoundedFifoHistories ==
    /\ \A k \in 1..Len(tracks) :
           /\ Len(tracks[k].speedHistory) <= 20
           /\ Len(tracks[k].laneHistory) <= 10
    /\ Returned =>
        /\ \A i \in 1..Len(claimed) :
               /\ Front(IsTrack(i).speedHistory)
                      = Remaining(WasTrack(i).speedHistory, 20)
               /\ Front(IsTrack(i).laneHistory)
                      = Remaining(WasTrack(i).laneHistory, 10)
               /\ Newest(IsTrack(i).laneHistory)
                      = CentroidX(given[MatchOf(i)].box_2d)
               /\ detections[MatchOf(i)].speedHistory = IsTrack(i).speedHistory
        /\ \A d \in 1..Len(kept) :
               (kept[d].trackId # 0 /\ Find(before, kept[d].trackId) # 0) =>
                   kept[d].speedHistory
                       = before[Find(before, kept[d].trackId)].speedHistory

\* C24 witness: a match of a track whose two buffers were full, with a
\* non-zero sample as the oldest left, while the caller holds the detection
\* of the call before, whose history is not the track's any more.
C24_Witness ==
    /\ Returned
    /\ \E i \in 1..Len(claimed) :
           /\ Len(WasTrack(i).speedHistory) = 20
           /\ Len(WasTrack(i).laneHistory) = 10
           /\ Len(IsTrack(i).speedHistory) = 20
           /\ IsTrack(i).speedHistory[1] # <<0, 1>>
           /\ \E d \in 1..Len(kept) :
                  /\ kept[d].trackId = IsTrack(i).id
                  /\ kept[d].speedHistory # IsTrack(i).speedHistory

\* C23: every vehicle detection matched to a track is returned with the
\* track's signed velocity in its velocity field.
C23_MatchedDetectionCarriesVelocity ==
    Returned =>
        \A i \in 1..Len(claimed) :
            detections[MatchOf(i)].velocity = IsTrack(i).velocity

\* C22: update() never throws, whatever the tracker holds and whatever the
\* frame is, a vehicle without a class label or with a box of no area
\* included.
C22_UpdateNeverThrows == pc # "throws"

----------------------------------------------------------------------------
\* Properties of reset() and of the order of the steps of update().

\* C31: from a reset() on, the tracker holds what a tracker constructed at
\* that moment and fed the same frames holds, and every update() returns the
\* detections with the annotations that tracker's update() gives them.
C31_ResetIsStartingOver ==
    fresh # <<>> =>
        /\ tracks = fresh.tracks
        /\ nextId = fresh.nextId
        /\ Returned => detections = fresh.dets

\* C31 witness: two frames or more before the reset and two or more after it,
\* the last of them with a detection matched by track 1.
C31_Witness ==
    /\ fresh # <<>>
    /\ fresh.fed >= 2
    /\ calls - fresh.fed >= 2
    /\ Returned
    /\ \E i \in 1..Len(claimed) :
           /\ claimed[i][1] = 1
           /\ detections[MatchOf(i)].trackId = 1
           /\ Len(detections[MatchOf(i)].speedHistory) >= 2

\* C32: a track that had missingFrames = 5 when an update() started and is
\* matched in it is live after the call, with missingFrames = 0 and its id,
\* which its detection carries.
C32_MatchedAtSixthFrame ==
    Returned =>
        \A i \in 1..Len(claimed) :
            WasTrack(i).missingFrames = maxMissingFrames =>
                /\ Find(tracks, claimed[i][1]) # 0
                /\ IsTrack(i).missingFrames = 0
                /\ IsTrack(i).id = WasTrack(i).id
                /\ detections[MatchOf(i)].trackId = WasTrack(i).id

\* C32 witness: a track that had missed five frames is matched, and no track
\* is created in the call.
C32_Witness ==
    /\ Returned
    /\ created = <<>>
    /\ \E i \in 1..Len(claimed) :
           /\ WasTrack(i).missingFrames = 5
           /\ IsTrack(i).missingFrames = 0
           /\ detections[MatchOf(i)].trackId = WasTrack(i).id

\* A track of before that no detection of the call was matched to.
Unmatched(t) == \A i \in 1..Len(claimed) : claimed[i][1] # t.id

\* C33: a track that is not matched in an update() and is live after it is
\* after the call what it was before it, but for missingFrames, which is one
\* more.
C33_UnmatchedTrackOnlyAges ==
    Returned =>
        \A k \in 1..Len(before) :
            (Unmatched(before[k]) /\ Find(tracks, before[k].id) # 0) =>
                tracks[Find(tracks, before[k].id)]
                    = [before[k] EXCEPT !.missingFrames = @ + 1]

\* C33 witness: a track with a speed, a filter velocity, several samples and
\* a speeding counter above 0 stays unmatched in a call that matches another
\* track.
C33_Witness ==
    /\ Returned
    /\ claimed # <<>>
    /\ \E k \in 1..Len(before) :
           /\ Unmatched(before[k])
           /\ Find(tracks, before[k].id) # 0
           /\ before[k].speedingFrames > 0
           /\ before[k].speed > 0
           /\ before[k].kalman.v # <<0, 1>>
           /\ Len(before[k].speedHistory) > 2
           /\ tracks[Find(tracks, before[k].id)].missingFrames
                  = before[k].missingFrames + 1

\* C34: every track id on a detection that an update() returns is the id of a
\* live track whose missingFrames is 0, and the id of every live track is
\* below nextId.
C34_IdsNameLiveTracks ==
    /\ \A k \in 1..Len(tracks) : tracks[k].id < nextId
    /\ Returned =>
        \A d \in 1..Len(detections) :
            detections[d].trackId # 0 =>
                /\ Find(tracks, detections[d].trackId) # 0
                /\ tracks[Find(tracks, detections[d].trackId)].missingFrames = 0

\* C34 witness: a call that matches one track and creates another: its two
\* detections carry the ids of two live tracks with missingFrames 0, the
\* larger of them nextId - 1.
C34_Witness ==
    /\ Returned
    /\ claimed # <<>>
    /\ created # <<>>
    /\ \E d \in 1..Len(detections) : \E e \in 1..Len(detections) :
           /\ detections[d].trackId # 0
           /\ detections[e].trackId = nextId - 1
           /\ detections[d].trackId < detections[e].trackId
           /\ tracks[Find(tracks, detections[d].trackId)].missingFrames = 0
           /\ tracks[Find(tracks, detections[e].trackId)].missingFrames = 0

------------------------------------------------------------------------------
\* Properties of the decay of the speeding flag.

------------------------------------------------------------------------------
\* The owner of the tracker: App.tsx.  Every handler and every continuation
\* after an await runs to its end before another starts; React renders after
\* it with the last value each state was set to.

\* How many loops (simulations, camera closures) are started, how often
\* stopAllModes() is called and update() is reached.
MaxLoops == 3

MaxSessions == 3

MaxUpdates == 3

\* SIMULATION_SCENARIOS.length
Scenarios == 8

\* trackerRef.current.reset() inside a handler of the component
TrackerReset ==
    /\ tracks' = ResetTracks
    /\ nextId' = ResetNextId
    /\ issued' = <<>>
    /\ runs' = <<>>
    /\ UNCHANGED <<pc, detections, given, before, claimed, created, flowDir,
                   calls, kept, fresh>>

\* Work that waits for an event: the loop it belongs to, where it waits, the
\* scenario it is at, the session its loop began in, the ones its first and
\* its latest frame were sent in, whether the camera was on when the frame
\* was captured, and the isCameraActive and status its closure holds.
Task(loop, kind, at, born) ==
    [loop |-> loop, kind |-> kind, at |-> at, i |-> 0, born |-> born,
     first |-> 0, sent |-> 0,
     live |-> FALSE, isCameraActive |-> FALSE, status |-> "IDLE"]

\* videoRef.current is the <video> element while the render shows one
VideoMounted(a) ==
    a.activeView = "monitor" /\ (a.isCameraActive \/ a.processingVideo)

\* The render after a handler: a <video> that is not shown is unmounted.
Commit(a) == IF VideoMounted(a) THEN a ELSE [a EXCEPT !.videoSrc = ""]

\* const stopCamera = () => { ... setIsCameraActive(false) ... }
stopCamera(a) == [a EXCEPT !.isCameraActive = FALSE]

\* const stopSimulation = () => { simulationRef.current = false ... }
stopSimulation(a) == [a EXCEPT !.simulationRef = FALSE]

\* const stopAllModes = () => { ... }, the tracker's reset aside
stopAllModes(a) ==
    [stopSimulation(stopCamera(a)) EXCEPT
        !.processingVideo = FALSE,
        !.videoProcessingRef = FALSE,
        !.videoSrc = "",
        !.result = <<>>,
        !.status = "IDLE",
        !.session = @ + 1,
        !.processed = FALSE]

\* The camera effect has to run again: its dependencies changed and it has a
\* timer to clear or a loop to start.
EffectDue(a) ==
    /\ <<a.isCameraActive, a.status>> # <<a.effect.isCameraActive, a.effect.status>>
    /\ \/ a.isCameraActive
       \/ \E t \in a.pending : t.loop = a.effect.loop /\ t.at = "timer"

\* A handler or a continuation may start.
Ready == pc = "idle" /\ ~EffectDue(app)

\* const goHome = () => { stopAllModes(); setActiveView('home') }
GoHome ==
    /\ Ready
    /\ app.session < MaxSessions
    /\ app' = Commit([stopAllModes(app) EXCEPT !.activeView = "home"])
    /\ TrackerReset

\* The Stop Session button of the monitor view: onClick={stopAllModes}
StopSession ==
    /\ Ready
    /\ app.activeView = "monitor"
    /\ app.session < MaxSessions
    /\ app' = Commit(stopAllModes(app))
    /\ TrackerReset

\* What the vision service answers with: the detections of a frame.
AppFrames == {<<>>, <<CarAt(0)>>}

\* processImage() from the answer of the vision service to its end, for the
\* task t: with detections, update() at Date.now(), setResult and
\* setStatus(COMPLETE).
Processed(a, t, dets) ==
    [a EXCEPT !.status = "COMPLETE", !.result = <<dets>>,
              !.processed = @ \/ t.sent = a.session]

\* processImage() when the service throws or answers without detections:
\* the catch block, which sets the status only in mode 'single'.
Failed(a, t, mode) ==
    [a EXCEPT !.status = IF mode = "single" THEN "ERROR" ELSE @,
              !.processed = @ \/ t.sent = a.session]

\* The task t of a waits at its next await, as u.
Await(a, t, u) == [a EXCEPT !.pending = (@ \ {t}) \cup {u}]

\* The task t of a is over.
Over(a, t) == [a EXCEPT !.pending = @ \ {t}]

\* Simulation.

\* const startSimulation = async () => { ... }, up to `await preloadImages()`
StartSimulation ==
    /\ Ready
    /\ app.activeView = "home"
    /\ app.session < MaxSessions
    /\ app.loops < MaxLoops
    /\ \E a \in {stopAllModes(app)} :
         app' = Commit([a EXCEPT
                    !.simulationRef = TRUE,
                    !.activeView = "monitor",
                    !.status = "VISION_SCANNING",
                    !.loops = @ + 1,
                    !.pending = @ \cup {Task(a.loops + 1, "simulation", "preload",
                                              a.session)}])
    /\ TrackerReset

\* After the for statement of startSimulation:
\* if (simulationRef.current) { setIsSimulating(false); setStatus(COMPLETE) }
SimulationEnd(a, t) ==
    Over([a EXCEPT !.status = IF a.simulationRef THEN "COMPLETE" ELSE @], t)

\* One pass of the for statement of startSimulation for scenario i, from the
\* test of simulationRef.current to `await analyzeTrafficImage(...)` in
\* processImage.
SimulationStep(a, t, i) ==
    IF i > Scenarios \/ ~a.simulationRef
    THEN SimulationEnd(a, t)
    ELSE Await([a EXCEPT !.status = "VISION_SCANNING"], t,
               [t EXCEPT !.at = "analysis", !.i = i, !.sent = a.session,
                         !.first = IF i = 1 THEN a.session ELSE @])

\* preloadImages() settles: the loop starts, or an image failed to load and
\* the catch block is followed by the statement after the loop.
Preloaded ==
    /\ Ready
    /\ \E t \in app.pending :
         /\ t.at = "preload"
         /\ \/ app' = SimulationStep(app, t, 1)
            \/ app' = SimulationEnd(app, t)
    /\ UNCHANGED <<tracker, kept, fresh>>

\* The vision service settles for a scenario image: the rest of processImage
\* in mode 'single', then `await new Promise(r => setTimeout(r, 4000))`.
SimulationAnalysed ==
    /\ Ready
    /\ \E t \in app.pending :
         /\ t.kind = "simulation"
         /\ t.at = "analysis"
         /\ \/ /\ calls < MaxUpdates
               /\ \E frame \in AppFrames : TrackingUpdate(frame, Timestamp(0))
               /\ app' = Await(Processed(app, t, detections'), t,
                               [t EXCEPT !.at = "delay"])
               /\ UNCHANGED fresh
            \/ /\ app' = Await(Failed(app, t, "single"), t, [t EXCEPT !.at = "delay"])
               /\ UNCHANGED <<tracker, kept, fresh>>

\* The 4-second delay is over: i++ and the next pass.
SimulationDelayed ==
    /\ Ready
    /\ \E t \in app.pending :
         /\ t.kind = "simulation"
         /\ t.at = "delay"
         /\ app' = SimulationStep(app, t, t.i + 1)
    /\ UNCHANGED <<tracker, kept, fresh>>

SimulationNext ==
    \/ StartSimulation
    \/ GoHome
    \/ StopSession
    \/ Preloaded
    \/ SimulationAnalysed
    \/ SimulationDelayed
    \/ Ended

SpecSimulation == Init /\ [][SimulationNext]_vars

------------------------------------------------------------------------------
\* Camera and video.

\* How many closures of the camera effect get a loop.
MaxClosures == 5

\* const startCamera = async () => { stopAllModes(); ... await getUserMedia
StartCamera ==
    /\ Ready
    /\ app.activeView = "home"
    /\ app.session < MaxSessions
    /\ \E a \in {stopAllModes(app)} :
         app' = Commit([a EXCEPT
                    !.pending = @ \cup {Task(0, "camera", "permission", a.session)}])
    /\ TrackerReset

\* getUserMedia settles: setIsCameraActive(true), reset() and
\* navigateTo('monitor'), or the catch block.
Granted ==
    /\ Ready
    /\ \E t \in app.pending :
         /\ t.at = "permission"
         /\ \/ /\ app' = Commit(Over([app EXCEPT !.isCameraActive = TRUE,
                                                 !.activeView = "monitor"], t))
               /\ TrackerReset
            \/ /\ app' = Over(app, t)
               /\ UNCHANGED <<tracker, kept, fresh>>

\* handleUpload with a video file: stopAllModes(), handleVideoUpload(file),
\* navigateTo('monitor').  The file input is part of the home view.
UploadVideo ==
    /\ Ready
    /\ app.activeView = "home"
    /\ app.session < MaxSessions
    /\ app' = Commit([stopAllModes(app) EXCEPT
                   !.processingVideo = TRUE,
                   !.videoProcessingRef = TRUE,
                   !.videoSrc = IF VideoMounted(app) THEN "url" ELSE @,
                   !.activeView = "monitor"])
    /\ TrackerReset

\* const loop = async () => { ... } of the camera effect, for the closure
\* whose isCameraActive and status t holds: up to the await in processImage,
\* to setTimeout(loop, 1000), or to the return.
CameraLoop(a, t) ==
    IF ~t.isCameraActive \/ ~VideoMounted(a) THEN Over(a, t)
    ELSE IF t.status \in {"IDLE", "COMPLETE", "ERROR"}
    THEN Await([a EXCEPT !.status = "VISION_SCANNING"], t,
               [t EXCEPT !.at = "analysis", !.sent = a.session,
                         !.live = a.isCameraActive])
    ELSE Await(a, t, [t EXCEPT !.at = "timer"])

\* The timer that the cleanup of the effect clears: the one its own loop set
\* last, if it has not fired.
Cleared(a) ==
    [a EXCEPT !.pending = {t \in @ : ~(t.loop = a.effect.loop /\ t.at = "timer")}]

\* The closure of a run of the effect.
Closure(a) ==
    [Task(a.loops + 1, "camera", "start", a.session) EXCEPT
        !.isCameraActive = a.isCameraActive, !.status = a.status]

\* useEffect(() => { ... }, [isCameraActive, status]): the cleanup of the
\* last run, then this run: if (isCameraActive) loop().
CameraEffect ==
    /\ pc = "idle"
    /\ EffectDue(app)
    /\ app.loops < MaxClosures
    /\ \E a \in {Cleared(app)} :
         app' = IF a.isCameraActive
                THEN CameraLoop([a EXCEPT !.loops = @ + 1,
                                          !.effect = [isCameraActive |-> TRUE,
                                                      status |-> a.status,
                                                      loop |-> a.loops + 1]],
                                Closure(a))
                ELSE [a EXCEPT !.effect = [isCameraActive |-> FALSE,
                                           status |-> a.status, loop |-> 0]]
    /\ UNCHANGED <<tracker, kept, fresh>>

\* setTimeout(loop, 1000) fires.
CameraTimer ==
    /\ Ready
    /\ \E t \in app.pending :
         /\ t.kind = "camera"
         /\ t.at = "timer"
         /\ app' = CameraLoop(app, t)
    /\ UNCHANGED <<tracker, kept, fresh>>

\* The vision service settles for a camera frame: the rest of processImage in
\* mode 'camera', then timeoutId = setTimeout(loop, 1000).
CameraAnalysed ==
    /\ Ready
    /\ \E t \in app.pending :
         /\ t.kind = "camera"
         /\ t.at = "analysis"
         /\ \/ /\ calls < MaxUpdates
               /\ \E frame \in AppFrames : TrackingUpdate(frame, Timestamp(0))
               /\ app' = Await(Processed(app, t, detections'), t,
                               [t EXCEPT !.at = "timer"])
               /\ UNCHANGED fresh
            \/ /\ app' = Await(Failed(app, t, "camera"), t, [t EXCEPT !.at = "timer"])
               /\ UNCHANGED <<tracker, kept, fresh>>

CameraNext ==
    \/ StartCamera
    \/ Granted
    \/ UploadVideo
    \/ GoHome
    \/ StopSession
    \/ CameraEffect
    \/ CameraTimer
    \/ CameraAnalysed
    \/ Ended

SpecCamera == Init /\ [][CameraNext]_vars

------------------------------------------------------------------------------
\* Properties of the component's sessions.

\* C36: after stopAllModes() and until an analysis that was sent after it
\* has completed, the tracker is empty (no tracks, nextId 1) and the result
\* is cleared: no analysis sent before the stop reaches update() or
\* setResult().
C36_StoppedAnalysisIsDropped ==
    ~app.processed =>
        /\ tracks = <<>>
        /\ nextId = 1
        /\ app.result = <<>>

\* C37: a simulation loop that sent its first image in the session it was
\* started in sends every further image in that session only: once the
\* simulation was stopped or started again (each begins a new session) while
\* the loop awaited an analysis or its delay, the loop sends no further
\* image, so at most one loop is active.
C37_OneSimulationLoop ==
    \A t \in app.pending :
        (t.kind = "simulation" /\ t.at = "analysis" /\ t.first = t.born) =>
            t.sent = t.born

\* The camera frames that were sent since the last stopAllModes() and whose
\* analysis is in flight.
InFlight ==
    {t \in app.pending :
        t.kind = "camera" /\ t.at = "analysis" /\ t.sent = app.session}

\* C39: in camera mode at most one frame analysis (processImage call) is in
\* flight at any time, and every frame in flight was captured while the
\* camera was on (isCameraActive): none is captured after the camera is
\* stopped.
C39_OneCameraFrameInFlight ==
    /\ Cardinality(InFlight) <= 1
    /\ \A t \in InFlight : t.live

\* The two halves of C39, each alone.
OneFrameInFlight == Cardinality(InFlight) <= 1

CapturedWhileCameraOn == \A t \in InFlight : t.live

\* handleVideoUpload never finds a <video> element to give the file to: it
\* is called from the home view, which shows none.
UploadFindsNoVideo == app.videoSrc = ""

====
